---- MODULE Spec2Model ----
(***************************************************************************)
(* Email productivity agent: the agent pipeline (categorization, action    *)
(* items, drafts, RAG answers) over the LLM gateway, the vector index and  *)
(* the document store.                                                     *)
(*                                                                         *)
(* The module holds several specifications over one set of variables:      *)
(*   Spec      the email store and the agents that write it                *)
(*   SpecAgg   ActionItemAgent.get_all_action_items over store contents    *)
(*   SpecLLM   LLMService.generate_text (retry) and the JSON helpers       *)
(*   SpecDraft DraftAgent and the drafts collection                        *)
(*   SpecRag   RAGAgent over the vector index and the inbox                *)
(*   SpecRecat recategorize_all_emails and get_category_statistics         *)
(*   SpecIngest EmailService.process_email_batch step by step              *)
(*   SpecConfig save_prompt and get_active_prompt on the prompts collection *)
(*   SpecSave  concurrent save_email / save_draft calls                     *)
(*   SpecRace  recategorize_all step by step, with complete in between      *)
(*   SpecFrame categorize, extract and reply on two stored emails           *)
(*   SpecDb    the three collections as sets of documents, the prompt      *)
(*             lookup of the agents and the orchestrator's requests by id  *)
(* A specification leaves the variables of the others at their initial     *)
(* values.                                                                 *)
(***************************************************************************)
EXTENDS Integers, Sequences, FiniteSets, TLC

VARIABLES
    store,      \* emails collection: email id -> stored Email document
    last,       \* the last agent call: operation, arguments, outcome
    aggResult,  \* SpecAgg: the list get_all_action_items returned
    llm,        \* SpecLLM: the generate_text call in progress / finished
    drafts,     \* SpecDraft: drafts collection: draft id -> stored document
    now,        \* SpecDraft: the wall clock read by datetime.now()
    draftOp,    \* SpecDraft: the last draft operation and what it returned
    rag,        \* SpecRag: the answer_query call in progress / finished
    index,      \* SpecRag: the vector index: the ids of the emails upserted
    mongo,      \* SpecDb: the three collections, each the set of its documents
    req         \* SpecDb: the last request: operation, arguments, outcome

vars == <<store, last, aggResult, llm, drafts, now, draftOp, rag, index, mongo, req>>

coreVars == <<store, last>>
aggVars == <<aggResult>>
llmVars == <<llm>>
draftVars == <<drafts, now, draftOp>>
ragVars == <<rag, index>>
dbVars == <<mongo, req>>

(***************************************************************************)
(* Data model (backend/models/email.py)                                    *)
(***************************************************************************)

\* The email ids of the ingestion input.  Spec follows one email through the
\* agents.
EmailIds == {"e1"}

\* Email.timestamp of each ingested email (fixed by the input file).
EmailTimestamp(e) ==
    CASE e = "e1" -> 1
      [] e = "e2" -> 2
      [] OTHER -> 3

EmailCategory == {"URGENT", "ACTION_REQUIRED", "INFORMATIONAL", "SPAM", "UNCATEGORIZED"}

\* A key that a dict parsed from the model's JSON does not carry.
Missing == "<missing>"

\* Optional[str] = None
None == "<None>"

\* dict.get(key, default)
DictGet(v, default) == IF v = Missing THEN default ELSE v

\* Email(...) as built by the ingestion: the processing results at their
\* defaults.  classified is a history field: a classification pass has
\* assigned this object's category.
FreshEmail(id) ==
    [id |-> id, category |-> "UNCATEGORIZED", category_reason |-> None,
     action_items |-> <<>>, embedding_id |-> None, classified |-> FALSE]

\* A validation that accepts every dict.
ActionItemAnyDict(item) == TRUE

\* ActionItem(**item): description is required, priority and completed have
\* defaults.
ActionItemValid(item) == item.description # Missing

ActionItemOf(item) ==
    [description |-> item.description,
     priority |-> DictGet(item.priority, "Medium"),
     completed |-> (DictGet(item.completed, "false") = "true")]

(***************************************************************************)
(* Inputs of the email agents: what the LLM gateway hands back             *)
(***************************************************************************)

\* Longest action-item list the model returns.
MaxItems == 2

\* What LLMService.categorize_email gives its caller: a raised generation
\* failure, a parsed JSON value that is no object (json.loads returns it as
\* it is), or a dict with or without the two keys: the default of
\* categorize_email on a JSONDecodeError, an enum label ("URGENT"), a label
\* that is no enum value ("Important"), a missing category.
CatOutcomes ==
    {[kind |-> "fail", category |-> Missing, reason |-> Missing],
     [kind |-> "nondict", category |-> Missing, reason |-> Missing],
     [kind |-> "dict", category |-> "UNCATEGORIZED", reason |-> "Unable to categorize"]}
    \cup {[kind |-> "dict", category |-> c, reason |-> "Test reason"] :
            c \in {"URGENT", "Important"}}
    \cup {[kind |-> "dict", category |-> Missing, reason |-> r] :
            r \in {"Test reason", Missing}}

\* The dicts of the model's "action_items" list.
ValidItemDicts ==
    {[description |-> "d1", priority |-> "High", completed |-> c] : c \in {Missing, "true"}}

InvalidItemDict == [description |-> Missing, priority |-> "High", completed |-> Missing]

SeqsUpTo(S, n) == UNION {[1..k -> S] : k \in 0..n}

\* What LLMService.extract_action_items gives its caller: a raised
\* generation failure or a list of dicts (empty on a JSONDecodeError).
ExtOutcomes ==
    {[kind |-> "fail", items |-> <<>>]}
    \cup {[kind |-> "list", items |-> l] : l \in SeqsUpTo(ValidItemDicts, MaxItems)}
    \cup {[kind |-> "list", items |-> <<InvalidItemDict>>]}
    \cup {[kind |-> "list", items |-> <<d, InvalidItemDict>>] : d \in ValidItemDicts}

(***************************************************************************)
(* Persistence gateway: emails (backend/services/database_service.py)      *)
(***************************************************************************)

\* update_one({"id": id}, {"$set": email.model_dump()}, upsert=True)
SaveEmail(st, email) ==
    [e \in DOMAIN st \cup {email.id} |-> IF e = email.id THEN email ELSE st[e]]

\* find_one({"id": id}): the document, or None.
GetEmail(st, id) == IF id \in DOMAIN st THEN <<st[id]>> ELSE <<>>

\* A sequence of the ids of S by timestamp, most recent first.
RECURSIVE ByTimestampDesc(_)
ByTimestampDesc(S) ==
    IF S = {} THEN <<>>
    ELSE LET e == CHOOSE x \in S : \A y \in S : EmailTimestamp(y) <= EmailTimestamp(x)
         IN <<e>> \o ByTimestampDesc(S \ {e})

Take(s, n) == IF Len(s) <= n THEN s ELSE SubSeq(s, 1, n)

\* get_all_emails(limit): find().sort("timestamp", DESCENDING).limit(limit)
GetAllEmails(st, limit) ==
    LET ids == Take(ByTimestampDesc(DOMAIN st), limit)
    IN [i \in 1..Len(ids) |-> st[ids[i]]]

(***************************************************************************)
(* Categorization agent (backend/agents/categorization_agent.py)           *)
(***************************************************************************)

\* try: EmailCategory(label)  except ValueError: EmailCategory.UNCATEGORIZED
CoerceCategoryRaw(label) == label

CoerceCategory(label) == IF label \in EmailCategory THEN label ELSE "UNCATEGORIZED"

\* categorize_single_email without the ValueError guard (as process_email
\* converts the label).
CategorizeSingleEmailUnguarded(email, r, dbOk) ==
    IF r.kind = "fail"
    THEN [out |-> "raised", cause |-> "llm", email |-> email, saved |-> FALSE]
    ELSE IF r.kind = "nondict"
    THEN [out |-> "raised", cause |-> "result", email |-> email, saved |-> FALSE]
    ELSE IF DictGet(r.category, "UNCATEGORIZED") \notin EmailCategory
    THEN [out |-> "raised", cause |-> "label", email |-> email, saved |-> FALSE]
    ELSE LET e1 == [email EXCEPT
                      !.category = DictGet(r.category, "UNCATEGORIZED"),
                      !.category_reason = DictGet(r.reason, "No reason provided"),
                      !.classified = TRUE]
         IN IF dbOk
            THEN [out |-> "returned", cause |-> "", email |-> e1, saved |-> TRUE]
            ELSE [out |-> "raised", cause |-> "store", email |-> e1, saved |-> FALSE]

\* categorize_single_email on the caller's object `email` with the helper's
\* outcome r and the store up or down: the outcome, the caller's object after
\* the call, and whether save_email wrote it.
CategorizeSingleEmail(email, r, dbOk) ==
    IF r.kind = "fail"
    THEN [out |-> "raised", cause |-> "llm", email |-> email, saved |-> FALSE]
    ELSE IF r.kind = "nondict"
    THEN [out |-> "raised", cause |-> "result", email |-> email, saved |-> FALSE]
    ELSE LET e1 == [email EXCEPT
                      !.category = CoerceCategory(DictGet(r.category, "UNCATEGORIZED")),
                      !.category_reason = DictGet(r.reason, "No reason provided"),
                      !.classified = TRUE]
         IN IF dbOk
            THEN [out |-> "returned", cause |-> "", email |-> e1, saved |-> TRUE]
            ELSE [out |-> "raised", cause |-> "store", email |-> e1, saved |-> FALSE]

\* A loop that gives up at the first email whose categorization raises.
RECURSIVE RecategorizeLoopAborting(_, _, _, _, _)
RecategorizeLoopAborting(emails, cat, db, st, count) ==
    IF emails = <<>> THEN [store |-> st, count |-> count]
    ELSE LET email == Head(emails)
             res == CategorizeSingleEmail(email, cat[email.id], db[email.id])
         IN IF res.out = "raised" THEN [store |-> st, count |-> count]
            ELSE RecategorizeLoopAborting(Tail(emails), cat, db,
                                          SaveEmail(st, res.email), count + 1)

\* recategorize_all_emails over the emails read at its start: each email is
\* categorized in turn with its own helper outcome cat[id] and store state
\* db[id]; a raise is logged and skipped.  The store after the loop and the
\* count returned.
RECURSIVE RecategorizeLoop(_, _, _, _, _)
RecategorizeLoop(emails, cat, db, st, count) ==
    IF emails = <<>> THEN [store |-> st, count |-> count]
    ELSE LET email == Head(emails)
             res == CategorizeSingleEmail(email, cat[email.id], db[email.id])
         IN RecategorizeLoop(Tail(emails), cat, db,
                             IF res.saved THEN SaveEmail(st, res.email) ELSE st,
                             IF res.out = "returned" THEN count + 1 ELSE count)

\* get_all_emails(limit=1000) of the batch readers.
EmailLimit == 1000

(***************************************************************************)
(* Action-item agent (backend/agents/action_item_agent.py)                 *)
(***************************************************************************)

\* An extraction that appends the new items to the email's list.
ExtractActionItemsAppending(email, x, dbOk) ==
    IF x.kind = "fail"
    THEN [out |-> "raised", cause |-> "llm", email |-> email, saved |-> FALSE]
    ELSE IF \E i \in 1..Len(x.items) : ~ActionItemValid(x.items[i])
    THEN [out |-> "raised", cause |-> "item", email |-> email, saved |-> FALSE]
    ELSE LET e1 == [email EXCEPT
                      !.action_items = @ \o [i \in 1..Len(x.items) |-> ActionItemOf(x.items[i])]]
         IN IF dbOk
            THEN [out |-> "returned", cause |-> "", email |-> e1, saved |-> TRUE]
            ELSE [out |-> "raised", cause |-> "store", email |-> e1, saved |-> FALSE]

\* extract_action_items on the caller's object.
ExtractActionItems(email, x, dbOk) ==
    IF x.kind = "fail"
    THEN [out |-> "raised", cause |-> "llm", email |-> email, saved |-> FALSE]
    ELSE IF \E i \in 1..Len(x.items) : ~ActionItemValid(x.items[i])
    THEN [out |-> "raised", cause |-> "item", email |-> email, saved |-> FALSE]
    ELSE LET e1 == [email EXCEPT
                      !.action_items = [i \in 1..Len(x.items) |-> ActionItemOf(x.items[i])]]
         IN IF dbOk
            THEN [out |-> "returned", cause |-> "", email |-> e1, saved |-> TRUE]
            ELSE [out |-> "raised", cause |-> "store", email |-> e1, saved |-> FALSE]

\* The position of the last item whose description is exactly desc, 0 if none.
LastMatch(items, desc) ==
    IF \E i \in 1..Len(items) : items[i].description = desc
    THEN CHOOSE i \in 1..Len(items) :
            /\ items[i].description = desc
            /\ \A j \in (i + 1)..Len(items) : items[j].description # desc
    ELSE 0

\* The position of the first item whose description is exactly desc, 0 if none.
FirstMatch(items, desc) ==
    IF \E i \in 1..Len(items) : items[i].description = desc
    THEN CHOOSE i \in 1..Len(items) :
            /\ items[i].description = desc
            /\ \A j \in 1..(i - 1) : items[j].description # desc
    ELSE 0

\* A scan that flips the flag of the first match instead of setting it.
ToggleFirstMatch(items, desc) ==
    [i \in 1..Len(items) |->
        IF i = FirstMatch(items, desc) THEN [items[i] EXCEPT !.completed = ~items[i].completed]
        ELSE items[i]]

\* The scan of mark_action_item_complete: the first match gets completed = True.

CompleteFirstMatch(items, desc) ==
    [i \in 1..Len(items) |->
        IF i = FirstMatch(items, desc) THEN [items[i] EXCEPT !.completed = TRUE]
        ELSE items[i]]

\* mark_action_item_complete: get_email gives None when the email is absent
\* or the read fails; an exception of save_email is caught and gives False.
MarkActionItemComplete(st, id, desc, dbOk) ==
    IF ~dbOk \/ GetEmail(st, id) = <<>>
    THEN [out |-> FALSE, store |-> st]
    ELSE LET email == GetEmail(st, id)[1]
         IN IF FirstMatch(email.action_items, desc) = 0
            THEN [out |-> FALSE, store |-> st]
            ELSE [out |-> TRUE,
                  store |-> SaveEmail(st, [email EXCEPT !.action_items =
                                CompleteFirstMatch(email.action_items, desc)])]

(***************************************************************************)
(* Ingestion pipeline (backend/services/email_service.py)                  *)
(***************************************************************************)

\* process_email: categorize, extract, save_email, upsert_email; the first
\* failing step raises and the later steps do not run.  EmailCategory(label)
\* is not guarded here: a label that is no enum value raises ValueError.
ProcessEmail(email, r, x, dbOk, vecOk) ==
    LET label == DictGet(r.category, "UNCATEGORIZED")
        e1 == [email EXCEPT !.category = label,
                            !.category_reason = DictGet(r.reason, ""),
                            !.classified = TRUE]
        e2 == [e1 EXCEPT
                 !.action_items = [i \in 1..Len(x.items) |-> ActionItemOf(x.items[i])]]
        e3 == [e2 EXCEPT !.embedding_id = email.id]
        Raised(cause, e, saved) ==
            [out |-> "raised", cause |-> cause, email |-> e, saved |-> saved,
             indexed |-> FALSE]
    IN IF r.kind = "fail" THEN Raised("llm", email, FALSE)
       ELSE IF r.kind = "nondict" THEN Raised("result", email, FALSE)
       ELSE IF label \notin EmailCategory THEN Raised("label", email, FALSE)
       ELSE IF x.kind = "fail" THEN Raised("llm", e1, FALSE)
       ELSE IF \E i \in 1..Len(x.items) : ~ActionItemValid(x.items[i])
       THEN Raised("item", e1, FALSE)
       ELSE IF ~dbOk THEN Raised("store", e2, FALSE)
       ELSE IF ~vecOk THEN Raised("vector", e2, TRUE)
       ELSE [out |-> "returned", cause |-> "", email |-> e3, saved |-> TRUE,
             indexed |-> TRUE]

(***************************************************************************)
(* Spec: the email store under the agents' operations                      *)
(***************************************************************************)

\* Consecutive successful complete calls with the same arguments that the
\* call record counts.
MaxRepeat == 2

\* The record of a call: the operation, the email id, the label and reason
\* the model gave (categorize, process_email), the description asked for
\* (complete), the outcome (out, cause), the caller's Email object after the
\* call (mem; its category and history flag alone, in memcat, when the call
\* raised on the store write), the count a batch returned, how many
\* successful complete calls with these arguments have just run in a row,
\* and for an extract that returned the list the helper gave (items) and
\* whether the stored email held a completed item before the call (prior).
Call(op, id, r, desc, out, cause, mem, count, repeat) ==
    [op |-> op, id |-> id,
     label |-> IF r.kind = "dict" THEN r.category ELSE "",
     reason |-> IF r.kind = "dict" THEN r.reason ELSE "",
     desc |-> desc, out |-> out, cause |-> cause,
     mem |-> IF cause = "store" THEN <<>> ELSE mem,
     memcat |-> [i \in 1..Len(mem) |->
                    [category |-> mem[i].category, classified |-> mem[i].classified]],
     count |-> count, repeat |-> repeat, items |-> <<>>, prior |-> FALSE]

NoCat == [kind |-> "none", category |-> Missing, reason |-> Missing]

NoCall == Call("none", "", NoCat, "", "", "", <<>>, 0, 0)

AggIdle == [op |-> "none", include_completed |-> FALSE, readOk |-> TRUE, items |-> <<>>]
NoValue == [kind |-> "none", category |-> Missing, reason |-> Missing, items |-> <<>>]
LLMIdle ==
    [pc |-> "idle", op |-> "none", attempts |-> 0, failures |-> 0, delay |-> 0,
     text |-> <<>>, cause |-> "", value |-> NoValue]
DraftIdle ==
    [op |-> "none", id |-> 0, out |-> "", cause |-> "", draft |-> <<>>,
     original_subject |-> <<>>, after_save |-> FALSE, followups_ok |-> TRUE]
RagIdle ==
    [pc |-> "idle", top_k |-> 0, context |-> <<>>, llmCalls |-> 0, searches |-> 0,
     failed |-> "", answer |-> "", sources |-> <<>>, confidence |-> "",
     op |-> "none", raised |-> FALSE, items |-> <<>>]
ReqIdle ==
    [op |-> "none", coll |-> "", id |-> "", out |-> "", cause |-> "", fault |-> "",
     absent |-> FALSE, llmCalls |-> 0, writes |-> 0, custom |-> None, sent |-> <<>>,
     value |-> <<>>]

\* The Email object a caller holds: read from the store (get_email) or built
\* by the ingestion from its input.
CallerEmail(st, id, src) == IF src = "stored" THEN st[id] ELSE FreshEmail(id)

Init ==
    /\ store = <<>>
    /\ last = NoCall
    /\ aggResult = AggIdle
    /\ llm = LLMIdle
    /\ drafts = <<>>
    /\ now = 0
    /\ draftOp = DraftIdle
    /\ rag = RagIdle
    /\ index = {}
    /\ mongo = [emails |-> {}, prompts |-> {}, drafts |-> {}]
    /\ req = ReqIdle

\* CategorizationAgent.categorize_single_email(email)
Categorize(id, src, r, dbOk) ==
    /\ src = "stored" => id \in DOMAIN store
    /\ r.kind # "dict" => dbOk
    /\ LET res == CategorizeSingleEmail(CallerEmail(store, id, src), r, dbOk)
       IN /\ store' = IF res.saved THEN SaveEmail(store, res.email) ELSE store
          /\ last' = Call("categorize", id, r, "", res.out, res.cause, <<res.email>>, 0, 0)
    /\ UNCHANGED <<aggVars, llmVars, draftVars, ragVars, dbVars>>

\* CategorizationAgent.recategorize_all_emails()
RecategorizeAll(readOk, cat, db) ==
    /\ LET emails == IF readOk THEN GetAllEmails(store, EmailLimit) ELSE <<>>
           res == RecategorizeLoop(emails, cat, db, store, 0)
       IN /\ store' = res.store
          /\ last' = Call("recategorize_all", "", NoCat, "", "returned", "", <<>>, res.count, 0)
    /\ UNCHANGED <<aggVars, llmVars, draftVars, ragVars, dbVars>>

\* ActionItemAgent.extract_action_items(email)
Extract(id, src, x, dbOk) ==
    /\ src = "stored" => id \in DOMAIN store
    /\ (x.kind = "fail" \/ \E i \in 1..Len(x.items) : ~ActionItemValid(x.items[i])) => dbOk
    /\ LET res == ExtractActionItems(CallerEmail(store, id, src), x, dbOk)
       IN /\ store' = IF res.saved THEN SaveEmail(store, res.email) ELSE store
          /\ last' = [Call("extract", id, NoCat, "", res.out, res.cause, <<res.email>>, 0, 0)
                         EXCEPT !.items = IF res.out = "returned" THEN x.items ELSE <<>>,
                                !.prior = /\ res.out = "returned"
                                          /\ id \in DOMAIN store
                                          /\ \E i \in 1..Len(store[id].action_items) :
                                                store[id].action_items[i].completed]
    /\ UNCHANGED <<aggVars, llmVars, draftVars, ragVars, dbVars>>

\* ActionItemAgent.mark_action_item_complete(email_id, description)
Complete(id, desc, dbOk) ==
    /\ LET res == MarkActionItemComplete(store, id, desc, dbOk)
       IN /\ store' = res.store
          /\ last' = Call("complete", id, NoCat, desc, IF res.out THEN "true" ELSE "false",
                          IF dbOk THEN "" ELSE "store", <<>>, 0,
                          IF ~res.out THEN 0
                          ELSE IF last.op = "complete" /\ last.id = id /\ last.desc = desc
                                  /\ last.out = "true" /\ last.repeat < MaxRepeat
                          THEN last.repeat + 1
                          ELSE IF last.op = "complete" /\ last.id = id /\ last.desc = desc
                                  /\ last.out = "true"
                          THEN MaxRepeat
                          ELSE 1)
    /\ UNCHANGED <<aggVars, llmVars, draftVars, ragVars, dbVars>>

\* EmailService.process_email(email) on an email of the ingestion input
Process(id, r, x, fault) ==
    /\ LET res == ProcessEmail(FreshEmail(id), r, x, fault # "store", fault # "vector")
       IN /\ res.cause \in {"llm", "result", "label", "item"} => fault = "none"
          /\ res.cause \in {"result", "label"} \/ (res.cause = "llm" /\ r.kind = "fail")
                => x = [kind |-> "fail", items |-> <<>>]
          /\ store' = IF res.saved THEN SaveEmail(store, [res.email EXCEPT !.embedding_id = None])
                      ELSE store
          /\ last' = Call("process_email", id, r, "", res.out, res.cause, <<res.email>>, 0, 0)
    /\ UNCHANGED <<aggVars, llmVars, draftVars, ragVars, dbVars>>

Next ==
    \/ \E id \in EmailIds, src \in {"stored", "fresh"}, r \in CatOutcomes, dbOk \in BOOLEAN :
          Categorize(id, src, r, dbOk)
    \/ \E readOk \in BOOLEAN, cat \in [DOMAIN store -> CatOutcomes], db \in [DOMAIN store -> BOOLEAN] :
          RecategorizeAll(readOk, cat, db)
    \/ \E id \in EmailIds, src \in {"stored", "fresh"}, x \in ExtOutcomes, dbOk \in BOOLEAN :
          Extract(id, src, x, dbOk)
    \/ \E id \in EmailIds, desc \in {"d1", "d2"}, dbOk \in BOOLEAN :
          Complete(id, desc, dbOk)
    \/ \E id \in EmailIds, r \in CatOutcomes, x \in ExtOutcomes,
          fault \in {"none", "store", "vector"} :
          Process(id, r, x, fault)

Spec == Init /\ [][Next]_vars

(***************************************************************************)
(* Claims on Spec                                                          *)
(***************************************************************************)

CategoryOk(email) ==
    /\ email.category \in EmailCategory
    /\ ~email.classified => email.category = "UNCATEGORIZED"

\* C1: through categorize, recategorize_all and process_email with any model
\* output, the category of every email, stored or held by a caller, is one
\* of the five enum values, and an email without a classification pass is
\* UNCATEGORIZED.
C1_CategoryIsEnum ==
    /\ \A e \in DOMAIN store : CategoryOk(store[e])
    /\ \A i \in 1..Len(last.memcat) : CategoryOk(last.memcat[i])

\* C1 witness: categorize has run on a label that is no enum value and the
\* stored email is UNCATEGORIZED.
C1_Witness ==
    /\ last.op = "categorize" /\ last.label = "Important" /\ last.out = "returned"
    /\ last.id \in DOMAIN store
    /\ store[last.id].classified /\ store[last.id].category = "UNCATEGORIZED"

\* C2: categorize on a model result whose label is no enum value, or that has
\* no label, returns the email with category UNCATEGORIZED and the model's
\* reason, persisted as returned; when it raises instead, the cause is the
\* store write, never the label.
C2_InvalidLabelCoerced ==
    (last.op = "categorize" /\ last.label # "" /\ last.label \notin EmailCategory) =>
        \/ /\ last.out = "returned"
           /\ last.mem[1].category = "UNCATEGORIZED"
           /\ last.mem[1].category_reason = DictGet(last.reason, "No reason provided")
           /\ last.id \in DOMAIN store /\ store[last.id] = last.mem[1]
        \/ last.out = "raised" /\ last.cause = "store"

\* C2 witness: categorize returned for a result without a label.
C2_Witness ==
    /\ last.op = "categorize" /\ last.label = Missing /\ last.out = "returned"
    /\ last.mem[1].category = "UNCATEGORIZED" /\ last.mem[1].category_reason = "Test reason"

\* The items of `items` with description desc that are completed.
CompletedMatches(items, desc) ==
    {i \in 1..Len(items) : items[i].description = desc /\ items[i].completed}

\* A complete call that follows a successful complete call with the same
\* arguments and finds the store up.
RepeatedComplete ==
    /\ last.op = "complete" /\ last.out = "true"
    /\ last'.op = "complete" /\ last'.id = last.id /\ last'.desc = last.desc
    /\ last'.cause = ""

C13_ExtractReplaces ==
    (last.op = "extract" /\ last.out = "returned") =>
        LET stored == store[last.id].action_items
        IN /\ Len(stored) = Len(last.items)
           /\ \A i \in 1..Len(stored) :
                 /\ stored[i].description = last.items[i].description
                 /\ stored[i].priority = last.items[i].priority
                 /\ stored[i].completed = (last.items[i].completed = "true")

\* An extraction of one item, not completed, over a stored email that held
\* completed items.
C13_Witness ==
    /\ last.op = "extract" /\ last.out = "returned"
    /\ last.prior
    /\ Len(last.items) = 1
    /\ Len(store[last.id].action_items) = 1
    /\ ~store[last.id].action_items[1].completed

\* C14: complete never raises.  With the store up it returns true exactly
\* when the email is stored and has an item of exactly that description; then
\* the first such item is completed and nothing else of the store changes.
\* When it returns false the store is as it was.
C14_CompleteFrame ==
    [][last'.op = "complete" =>
          LET id == last'.id
              Matches == IF id \in DOMAIN store
                         THEN {i \in 1..Len(store[id].action_items) :
                                 store[id].action_items[i].description = last'.desc}
                         ELSE {}
          IN /\ last'.out \in {"true", "false"}
             /\ last'.cause = "" => (last'.out = "true" <=> Matches # {})
             /\ last'.out = "false" => store' = store
             /\ last'.out = "true" =>
                   /\ Matches # {}
                   /\ DOMAIN store' = DOMAIN store
                   /\ \A e \in DOMAIN store \ {id} : store'[e] = store[e]
                   /\ \E first \in Matches :
                         /\ \A j \in Matches : first <= j
                         /\ store'[id] =
                               [store[id] EXCEPT !.action_items[first].completed = TRUE]]_vars

\* A complete that returned true on an email with two items of that
\* description, neither completed before: only the first is completed.
C14_Witness ==
    /\ last.op = "complete" /\ last.out = "true" /\ last.repeat = 1
    /\ Len(store[last.id].action_items) = 2
    /\ store[last.id].action_items[1].completed
    /\ ~store[last.id].action_items[2].completed
    /\ store[last.id].action_items[2].description = last.desc

(***************************************************************************)
(* Action-item aggregation (backend/agents/action_item_agent.py)           *)
(***************************************************************************)

\* priority_order = {"High": 0, "Medium": 1, "Low": 2}; .get(priority, 3)
PriorityKey(priority) ==
    CASE priority = "High" -> 0
      [] priority = "Medium" -> 1
      [] priority = "Low" -> 2
      [] OTHER -> 3

\* A filter that lets every item through.
KeepAll(include_completed, item) == TRUE

\* if include_completed or not action_item.completed
KeepItem(include_completed, item) == include_completed \/ ~item.completed

\* The entries one email contributes, in the order of its action_items.  The
\* entry's email_subject and email_sender are copies of fields no operation
\* changes and are left out.
EntriesOf(email, include_completed) ==
    LET kept == SelectSeq(email.action_items,
                          LAMBDA item : KeepItem(include_completed, item))
    IN [i \in 1..Len(kept) |-> [email_id |-> email.id, action_item |-> kept[i]]]

\* for email in emails: for action_item in email.action_items: ... append
RECURSIVE Flatten(_, _)
Flatten(emails, include_completed) ==
    IF emails = <<>> THEN <<>>
    ELSE EntriesOf(Head(emails), include_completed)
         \o Flatten(Tail(emails), include_completed)

\* An insertion in front of the entries of the same key.
InsertBeforeEqual(sorted, x) ==
    LET k == PriorityKey(x.action_item.priority)
        n == Cardinality({i \in 1..Len(sorted) :
                            PriorityKey(sorted[i].action_item.priority) < k})
    IN SubSeq(sorted, 1, n) \o <<x>> \o SubSeq(sorted, n + 1, Len(sorted))

\* list.sort(key=...) is stable: an entry goes behind every entry already
\* placed whose key is not larger.
InsertByKey(sorted, x) ==
    LET k == PriorityKey(x.action_item.priority)
        n == Cardinality({i \in 1..Len(sorted) :
                            PriorityKey(sorted[i].action_item.priority) <= k})
    IN SubSeq(sorted, 1, n) \o <<x>> \o SubSeq(sorted, n + 1, Len(sorted))

RECURSIVE SortFrom(_, _)
SortFrom(sorted, rest) ==
    IF rest = <<>> THEN sorted
    ELSE SortFrom(InsertByKey(sorted, Head(rest)), Tail(rest))

SortByPriority(entries) == SortFrom(<<>>, entries)

\* get_all_action_items(include_completed).  A failing store read makes
\* get_all_emails return [] and the aggregate is empty.
GetAllActionItems(st, include_completed, readOk) ==
    LET emails == IF readOk THEN GetAllEmails(st, EmailLimit) ELSE <<>>
    IN SortByPriority(Flatten(emails, include_completed))

\* get_action_items_by_priority(priority): a filter over the aggregate of the
\* items not completed.
GetActionItemsByPriority(st, priority, readOk) ==
    SelectSeq(GetAllActionItems(st, FALSE, readOk),
              LAMBDA entry : entry.action_item.priority = priority)

(***************************************************************************)
(* SpecAgg: the aggregate over the contents of the store                   *)
(***************************************************************************)

\* Most action items the store holds, over all its emails.
MaxAggItems == 3

StoredEmail(id, items) ==
    [FreshEmail(id) EXCEPT !.action_items = items, !.classified = TRUE]

\* Store contents: two emails that share a list of at most MaxAggItems items,
\* the more recent email holding the first k.
InitAgg ==
    /\ \E l \in SeqsUpTo({[description |-> "d1", priority |-> p, completed |-> c] :
                               p \in {"High", "Medium", "Low", "Critical"},
                               c \in BOOLEAN},
                          MaxAggItems) : \E k \in 0..Len(l) :
          store = [id \in {"e1", "e2"} |->
                     StoredEmail(id, IF id = "e2" THEN SubSeq(l, 1, k)
                                     ELSE SubSeq(l, k + 1, Len(l)))]
    /\ last = NoCall
    /\ aggResult = AggIdle
    /\ llm = LLMIdle
    /\ drafts = <<>>
    /\ now = 0
    /\ draftOp = DraftIdle
    /\ rag = RagIdle
    /\ index = {}
    /\ mongo = [emails |-> {}, prompts |-> {}, drafts |-> {}]
    /\ req = ReqIdle

\* ActionItemAgent.get_all_action_items(include_completed)
Aggregate(include_completed, readOk) ==
    /\ aggResult' = [op |-> "aggregate", include_completed |-> include_completed,
                     readOk |-> readOk,
                     items |-> GetAllActionItems(store, include_completed, readOk)]
    /\ UNCHANGED <<coreVars, llmVars, draftVars, ragVars, dbVars>>

\* ActionItemAgent.get_action_items_by_priority(priority)
ByPriority(priority, readOk) ==
    /\ aggResult' = [op |-> priority, include_completed |-> FALSE,
                     readOk |-> readOk,
                     items |-> GetActionItemsByPriority(store, priority, readOk)]
    /\ UNCHANGED <<coreVars, llmVars, draftVars, ragVars, dbVars>>

NextAgg ==
    \/ \E include_completed \in BOOLEAN, readOk \in BOOLEAN :
          Aggregate(include_completed, readOk)
    \/ \E priority \in {"High", "Critical"}, readOk \in BOOLEAN :
          ByPriority(priority, readOk)

SpecAgg == InitAgg /\ [][NextAgg]_vars

(***************************************************************************)
(* Properties of the aggregate                                             *)
(***************************************************************************)

\* How often the entry of email e with this item occurs in a result.
EntryCount(res, e, item) ==
    Cardinality({i \in 1..Len(res) :
                   res[i] = [email_id |-> e, action_item |-> item]})

\* How often the item occurs in the stored email e.
StoredCount(e, item) ==
    Cardinality({j \in 1..Len(store[e].action_items) :
                   store[e].action_items[j] = item})

\* C4: whatever the store holds, an aggregate that read the store holds no
\* completed item unless include_completed was set, holds nothing the store
\* does not hold, and holds every stored item it is to return (the ones not
\* completed, and with include_completed the completed ones too) as often as
\* the store holds it: each occurrence exactly once.
C4_AggregateFiltersCompleted ==
    (aggResult.op = "aggregate" /\ aggResult.readOk) =>
        LET res == aggResult.items
        IN /\ ~aggResult.include_completed =>
                 \A i \in 1..Len(res) : ~res[i].action_item.completed
           /\ \A i \in 1..Len(res) :
                 /\ res[i].email_id \in DOMAIN store
                 /\ StoredCount(res[i].email_id, res[i].action_item) > 0
           /\ \A e \in DOMAIN store : \A j \in 1..Len(store[e].action_items) :
                 LET item == store[e].action_items[j]
                 IN EntryCount(res, e, item) =
                       IF item.completed /\ ~aggResult.include_completed
                       THEN 0 ELSE StoredCount(e, item)

\* An aggregate without the completed items over a store that holds a
\* completed item and two others, one of them in each email.
C4_Witness ==
    /\ aggResult.op = "aggregate"
    /\ aggResult.readOk
    /\ ~aggResult.include_completed
    /\ Len(aggResult.items) = 2
    /\ aggResult.items[1].email_id # aggResult.items[2].email_id
    /\ \E e \in DOMAIN store : \E j \in 1..Len(store[e].action_items) :
          store[e].action_items[j].completed

\* The entries of a result with the given priority, in the result's order.
WithPriority(res, p) ==
    SelectSeq(res, LAMBDA entry : entry.action_item.priority = p)

\* The entries email e contributes with priority p, in the email's order.
StoredWithPriority(e, p, include_completed) ==
    LET kept == SelectSeq(store[e].action_items,
                          LAMBDA item : /\ item.priority = p
                                        /\ (include_completed \/ ~item.completed))
    IN [i \in 1..Len(kept) |-> [email_id |-> e, action_item |-> kept[i]]]

\* C5: in the list aggregate returns no entry stands before a High entry
\* unless it is High, none before a Medium entry unless it is High or Medium,
\* and an entry whose priority is none of the three stands only before
\* entries of that kind; entries of equal priority stand in the order of the
\* flattening: the more recent email's first, and one email's entries in the
\* order of its action items.
C5_AggregateOrdered ==
    aggResult.op = "aggregate" =>
        LET res == aggResult.items
            Known == {"High", "Medium", "Low"}
        IN /\ \A i \in 1..Len(res) : \A j \in (i + 1)..Len(res) :
                 LET a == res[i].action_item.priority
                     b == res[j].action_item.priority
                 IN /\ b = "High" => a = "High"
                    /\ b = "Medium" => a \in {"High", "Medium"}
                    /\ b = "Low" => a \in Known
                    /\ a = b => EmailTimestamp(res[i].email_id)
                                   >= EmailTimestamp(res[j].email_id)
           /\ aggResult.readOk =>
                 \A e \in DOMAIN store : \A p \in {"High", "Medium", "Low", "Critical"} :
                    SelectSeq(WithPriority(res, p),
                              LAMBDA entry : entry.email_id = e)
                       = StoredWithPriority(e, p, aggResult.include_completed)

\* A result of three entries that the sort reordered: the older email's entry
\* first, then two entries of one priority, the more recent email's before
\* the older email's, and an entry of an unknown priority among them.
C5_Witness ==
    /\ aggResult.op = "aggregate"
    /\ Len(aggResult.items) = 3
    /\ aggResult.items[1].email_id = "e1"
    /\ aggResult.items[2].email_id = "e2"
    /\ aggResult.items[3].email_id = "e1"
    /\ aggResult.items[2].action_item.priority = "Critical"
    /\ aggResult.items[3].action_item.priority = "Critical"

(***************************************************************************)
(* LLM gateway (backend/services/llm_service.py)                           *)
(***************************************************************************)

\* stop_after_attempt(3)
MaxAttempts == 3

StopAfterFour(attempts) == attempts >= MaxAttempts + 1

StopAfterAttempt(attempts) == attempts >= MaxAttempts

\* wait_exponential(multiplier=1, min=2, max=10): the seconds slept after the
\* given attempt, max(2, min(2 ** (attempt - 1), 10)).
WaitExponential(attempt) ==
    LET exp == 2 ^ (attempt - 1)
        capped == IF exp < 10 THEN exp ELSE 10
    IN IF capped < 2 THEN 2 ELSE capped

\* A response text is a sequence of pieces: the fence mark (the three
\* backquote characters, written <fence> here), the word json, a line break,
\* or a run of other characters that is a JSON document or prose.
Fence == "<fence>"
LineBreak == "\n"

ObjCategory == "{\"category\": \"URGENT\", \"reason\": \"Test reason\"}"
ObjItems == "{\"action_items\": [{\"description\": \"d1\", \"priority\": \"High\"}]}"
ObjEmpty == "{}"
ArrayDoc == "[]"
NullDoc == "null"
\* The texts the model returns: a document or nothing, bare or between fence
\* marks (with or without the json tag, with or without the closing mark),
\* with or without a leading line break.
ResponseTexts ==
    {lead \o open \o body \o close :
        lead \in {<<>>, <<LineBreak>>},
        open \in {<<>>, <<Fence, "json", LineBreak>>, <<Fence, LineBreak>>},
        body \in {<<>>} \cup {<<d>> : d \in {ObjCategory, ObjItems, ObjEmpty, ArrayDoc, NullDoc,
                                               "Here is the analysis you asked for"}},
        close \in {<<>>, <<LineBreak, Fence>>, <<LineBreak, Fence, LineBreak>>}}

\* str.strip()
RECURSIVE LStrip(_)
LStrip(s) == IF s # <<>> /\ Head(s) = LineBreak THEN LStrip(Tail(s)) ELSE s

RECURSIVE RStrip(_)
RStrip(s) ==
    IF s # <<>> /\ s[Len(s)] = LineBreak THEN RStrip(SubSeq(s, 1, Len(s) - 1)) ELSE s

Strip(s) == RStrip(LStrip(s))

\* str.startswith, str.endswith
StartsWith(s, prefix) ==
    Len(s) >= Len(prefix) /\ SubSeq(s, 1, Len(prefix)) = prefix

EndsWith(s, suffix) ==
    Len(s) >= Len(suffix) /\ SubSeq(s, Len(s) - Len(suffix) + 1, Len(s)) = suffix

\* response.strip(); drop a leading ```json (7 characters: two pieces); drop a
\* trailing ``` (3 characters: one piece); strip() again.
CleanResponse(text) ==
    LET a == Strip(text)
        b == IF StartsWith(a, <<Fence, "json">>) THEN SubSeq(a, 3, Len(a)) ELSE a
        c == IF EndsWith(b, <<Fence>>) THEN SubSeq(b, 1, Len(b) - 1) ELSE b
    IN Strip(c)

JsonDecodeError == [kind |-> "JSONDecodeError", category |-> Missing, reason |-> Missing, items |-> <<>>]

\* json.loads: the value of a text that is one JSON document, JSONDecodeError
\* for every other text.  An object's value keeps what its keys "category",
\* "reason" and "action_items" hold.
JsonLoads(s) ==
    IF Len(s) # 1 THEN JsonDecodeError
    ELSE CASE s[1] = ObjCategory ->
                [kind |-> "object", category |-> "URGENT", reason |-> "Test reason",
                 items |-> <<>>]
           [] s[1] = ObjItems ->
                [kind |-> "object", category |-> Missing, reason |-> Missing,
                 items |-> <<[description |-> "d1", priority |-> "High",
                              completed |-> Missing]>>]
           [] s[1] = ObjEmpty ->
                [kind |-> "object", category |-> Missing, reason |-> Missing,
                 items |-> <<>>]
           [] s[1] = ArrayDoc ->
                [kind |-> "array", category |-> Missing, reason |-> Missing,
                 items |-> <<>>]
           [] s[1] = NullDoc ->
                [kind |-> "null", category |-> Missing, reason |-> Missing,
                 items |-> <<>>]
           [] OTHER -> JsonDecodeError

\* The rest of LLMService.categorize_email once generate_text returned text:
\* the parsed value whatever it is, the default on a JSONDecodeError.
ParseCategory(text) ==
    LET v == JsonLoads(CleanResponse(text))
    IN IF v.kind = "JSONDecodeError"
       THEN [out |-> "returned", cause |-> "",
             value |-> [kind |-> "dict", category |-> "UNCATEGORIZED",
                        reason |-> "Unable to categorize", items |-> <<>>]]
       ELSE IF v.kind = "object"
       THEN [out |-> "returned", cause |-> "", value |-> [v EXCEPT !.kind = "dict"]]
       ELSE [out |-> "returned", cause |-> "", value |-> v]

\* The rest of LLMService.extract_action_items: result.get("action_items", [])
\* of the parsed value, [] on a JSONDecodeError.  A parsed value that is no
\* object has no get: the AttributeError is not caught.
ParseActionItems(text) ==
    LET v == JsonLoads(CleanResponse(text))
    IN IF v.kind = "JSONDecodeError"
       THEN [out |-> "returned", cause |-> "",
             value |-> [NoValue EXCEPT !.kind = "list"]]
       ELSE IF v.kind = "object"
       THEN [out |-> "returned", cause |-> "",
             value |-> [NoValue EXCEPT !.kind = "list", !.items = v.items]]
       ELSE [out |-> "raised", cause |-> "AttributeError", value |-> NoValue]

\* What the caller of generate_text does with the text.
AfterGenerate(op, text) ==
    CASE op = "categorize_email" -> ParseCategory(text)
      [] op = "extract_action_items" -> ParseActionItems(text)
      [] OTHER -> [out |-> "returned", cause |-> "",
                   value |-> [NoValue EXCEPT !.kind = "text"]]

(***************************************************************************)
(* SpecLLM: one gateway call at a time, attempt by attempt                 *)
(***************************************************************************)


\* A caller enters generate_text, directly or through one of the helpers.
StartCall(op) ==
    /\ llm.pc \in {"idle", "returned", "raised"}
    /\ llm' = [LLMIdle EXCEPT !.pc = "calling", !.op = op]
    /\ UNCHANGED <<coreVars, aggVars, draftVars, ragVars, dbVars>>

\* One attempt of the decorated body.  A text ends the call and the helper
\* runs on; an exception ends the call with RetryError once the stop condition
\* holds and is followed by the backoff sleep otherwise.
Attempt(ok, text) ==
    /\ llm.pc = "calling"
    /\ ~ok => text = <<>>
    /\ LET n == llm.attempts + 1
           r == AfterGenerate(llm.op, text)
       IN llm' = IF ok
                 THEN [llm EXCEPT !.pc = r.out, !.attempts = n, !.text = text,
                                  !.cause = r.cause, !.value = r.value]
                 ELSE IF StopAfterAttempt(n)
                 THEN [llm EXCEPT !.pc = "raised", !.attempts = n, !.failures = n,
                                  !.cause = "RetryError"]
                 ELSE [llm EXCEPT !.pc = "waiting", !.attempts = n, !.failures = n,
                                  !.delay = WaitExponential(n)]
    /\ UNCHANGED <<coreVars, aggVars, draftVars, ragVars, dbVars>>

\* The backoff sleep is over.
Backoff ==
    /\ llm.pc = "waiting"
    /\ llm' = [llm EXCEPT !.pc = "calling"]
    /\ UNCHANGED <<coreVars, aggVars, draftVars, ragVars, dbVars>>

NextLLM ==
    \/ \E op \in {"generate_text", "categorize_email", "extract_action_items"} :
          StartCall(op)
    \/ \E ok \in BOOLEAN, text \in ResponseTexts : Attempt(ok, text)
    \/ Backoff

SpecLLM == Init /\ [][NextLLM]_vars

\* C9: a call makes at most 3 attempts.  An attempt is made only while the
\* call is open and every earlier attempt failed; the attempt that succeeds
\* ends the call with that attempt's text, and a finished call makes no
\* further attempt.  The call ends with a failure exactly when the third
\* attempt fails: no value is returned after 3 failures, and there is no
\* fourth attempt.
C9_AtMostThreeAttempts ==
    [][/\ llm'.attempts <= 3
       /\ llm'.attempts > llm.attempts =>
             /\ llm.pc = "calling"
             /\ llm'.attempts = llm.attempts + 1
             /\ llm.failures = llm.attempts
             /\ llm'.failures = llm'.attempts <=>
                   llm'.pc \in {"waiting", "raised"} /\ llm'.cause \in {"", "RetryError"}
             /\ llm'.failures = llm.failures =>
                   /\ llm'.pc \in {"returned", "raised"}
                   /\ llm'.text \in ResponseTexts
                   /\ llm'.op = "generate_text" => llm'.pc = "returned"
       /\ llm.pc \in {"returned", "raised"} =>
             llm'.attempts = 0 /\ llm'.pc = "calling"
       /\ llm'.cause = "RetryError" <=> llm'.failures = 3
       /\ llm'.failures = 3 => llm'.pc = "raised"
       /\ llm'.pc = "waiting" => llm'.failures < 3]_vars

\* A call that the third failure ended.
C9_Witness ==
    /\ llm.op = "generate_text"
    /\ llm.pc = "raised"
    /\ llm.cause = "RetryError"
    /\ llm.attempts = 3

\* C10: when generate_text returned a text that, fences removed, is not a
\* JSON object, categorize_email returns category UNCATEGORIZED and
\* extract_action_items returns the empty list; a helper raises only when the
\* generation failed.
C10_ParseFailureDegrades ==
    (llm.op \in {"categorize_email", "extract_action_items"}
     /\ llm.pc \in {"returned", "raised"}) =>
        /\ llm.pc = "raised" => llm.cause = "RetryError"
        /\ (llm.failures < llm.attempts
            /\ JsonLoads(CleanResponse(llm.text)).kind # "object") =>
              /\ llm.pc = "returned"
              /\ llm.op = "categorize_email" =>
                    llm.value.kind = "dict" /\ llm.value.category = "UNCATEGORIZED"
              /\ llm.op = "extract_action_items" =>
                    llm.value.kind = "list" /\ llm.value.items = <<>>

(***************************************************************************)
(* Drafts (backend/models/draft.py, backend/agents/draft_agent.py,         *)
(* backend/services/database_service.py)                                   *)
(***************************************************************************)

\* The last reading of the clock.
MaxClock == 1

\* datetime.now() at clock reading t: two readings to the second, so that a
\* datetime has a microsecond part or has none.
DateTime(t) == [sec |-> t \div 2, usec |-> (t % 2) * 500000]

\* An ISO text cut at the seconds.
IsoFormatSeconds(dt) == <<dt.sec>>

\* datetime.isoformat(): "S" when the microsecond part is 0, "S.ffffff"
\* otherwise.  The text is kept as its numeric fields.
IsoFormat(dt) == IF dt.usec = 0 THEN <<dt.sec>> ELSE <<dt.sec, dt.usec>>

\* The datetime pydantic parses from an ISO text.
FromIso(s) == [sec |-> s[1], usec |-> IF Len(s) = 1 THEN 0 ELSE s[2]]

\* EmailDraft(...): id, created_at and updated_at come from datetime.now().
\* The id is str(datetime.now().timestamp()), kept as the clock reading.
\* category, action_items, is_sent and is_saved are left out: nothing the
\* draft operations do depends on them.
NewDraft(t, original_email_id, recipient, subject, body, followups) ==
    [id |-> t, original_email_id |-> original_email_id, recipient |-> recipient,
     subject |-> subject, body |-> body,
     created_at |-> DateTime(t), updated_at |-> DateTime(t),
     suggested_followups |-> followups]

\* draft.model_dump(mode='json')
DumpDraft(d) ==
    [d EXCEPT !.created_at = IsoFormat(d.created_at),
              !.updated_at = IsoFormat(d.updated_at)]

\* EmailDraft(**doc)
LoadDraft(doc) ==
    [doc EXCEPT !.created_at = FromIso(doc.created_at),
                !.updated_at = FromIso(doc.updated_at)]

\* save_draft(draft) at clock reading t: stamps updated_at on the caller's
\* object, then upserts the dump under the draft's id.
SaveDraft(dr, d, t) ==
    LET stamped == [d EXCEPT !.updated_at = DateTime(t)]
    IN [draft |-> stamped,
        drafts |-> [i \in DOMAIN dr \cup {d.id} |->
                      IF i = d.id THEN DumpDraft(stamped) ELSE dr[i]]]

\* get_draft(id): the draft, or None.
GetDraft(dr, id) == IF id \in DOMAIN dr THEN <<LoadDraft(dr[id])>> ELSE <<>>

\* A subject is a sequence of pieces; RePrefix is the text "Re: ".
RePrefix == "Re: "

\* A subject with the prefix put in front whatever it starts with.
AlwaysPrefixed(subject) == <<RePrefix>> \o subject

\* subject = f"Re: {subject}" unless subject.startswith("Re: ")
ReplySubject(subject) ==
    IF StartsWith(subject, <<RePrefix>>) THEN subject ELSE <<RePrefix>> \o subject

\* Follow-ups whose failure is passed on to the caller.
GenerateFollowupsPropagating(fu) ==
    [raised |-> ~fu.ok, lines |-> Take(fu.lines, 3)]

GenerateFollowups(fu) ==
    [raised |-> FALSE, lines |-> IF fu.ok THEN Take(fu.lines, 3) ELSE <<>>]

(***************************************************************************)
(* SpecDraft: the drafts collection under the draft operations             *)
(***************************************************************************)

DraftCall(op, id, out, cause, draft, original_subject, after_save) ==
    [op |-> op, id |-> id, out |-> out, cause |-> cause, draft |-> draft,
     original_subject |-> original_subject, after_save |-> after_save,
     followups_ok |-> TRUE]

\* Time passes.
Tick ==
    /\ now < MaxClock
    /\ now' = now + 1
    /\ UNCHANGED <<drafts, draftOp, coreVars, aggVars, llmVars, ragVars, dbVars>>

\* DraftAgent.generate_reply_draft(original_email): the reply body from the
\* gateway, the subject, the follow-ups, the draft, save_draft.  The clock
\* reads now when the draft is built and now + d when it is saved.  The call
\* record keeps whether the follow-up generation was answered.
GenerateReplyDraft(subject, fault, fu, d) ==
    /\ now + d <= MaxClock
    /\ fault = "llm" => d = 0 /\ ~fu.ok
    /\ LET followups == GenerateFollowups(fu)
           draft == NewDraft(now, "e1", "alice@example.com", ReplySubject(subject),
                             "reply body", followups.lines)
           saved == SaveDraft(drafts, draft, now + d)
       IN CASE fault = "llm" ->
                 /\ drafts' = drafts
                 /\ draftOp' = DraftCall("generate_reply_draft", now, "raised", "llm",
                                         <<>>, subject, FALSE)
            [] followups.raised ->
                 /\ drafts' = drafts
                 /\ draftOp' = [DraftCall("generate_reply_draft", now, "raised",
                                          "followups", <<>>, subject, FALSE)
                                   EXCEPT !.followups_ok = fu.ok]
            [] fault = "store" ->
                 /\ drafts' = drafts
                 /\ draftOp' = [DraftCall("generate_reply_draft", now, "raised", "store",
                                          <<>>, subject, FALSE)
                                   EXCEPT !.followups_ok = fu.ok]
            [] OTHER ->
                 /\ drafts' = saved.drafts
                 /\ draftOp' = [DraftCall("generate_reply_draft", now, "returned", "",
                                          <<saved.draft>>, subject, FALSE)
                                   EXCEPT !.followups_ok = fu.ok]
    /\ now' = now + d
    /\ UNCHANGED <<coreVars, aggVars, llmVars, ragVars, dbVars>>

\* DatabaseService.save_draft(draft) on the draft object the caller holds
\* from the last operation.
SaveHeldDraft(dbOk) ==
    /\ draftOp.draft # <<>>
    /\ LET saved == SaveDraft(drafts, draftOp.draft[1], now)
       IN IF dbOk
          THEN /\ drafts' = saved.drafts
               /\ draftOp' = DraftCall("save_draft", saved.draft.id, "returned", "",
                                       <<saved.draft>>, <<>>, FALSE)
          ELSE /\ drafts' = drafts
               /\ draftOp' = DraftCall("save_draft", saved.draft.id, "raised", "store",
                                       <<saved.draft>>, <<>>, FALSE)
    /\ UNCHANGED <<now, coreVars, aggVars, llmVars, ragVars, dbVars>>

\* DatabaseService.get_draft(id): None when there is no such draft and when
\* the read fails.
GetDraftById(id, readOk) ==
    /\ LET found == IF readOk THEN GetDraft(drafts, id) ELSE <<>>
       IN draftOp' = DraftCall("get_draft", id,
                               IF found # <<>> THEN "returned" ELSE "none",
                               IF readOk THEN "" ELSE "read",
                               found, <<>>,
                               /\ draftOp.op \in {"generate_reply_draft", "save_draft"}
                               /\ draftOp.out = "returned"
                               /\ draftOp.id = id)
    /\ UNCHANGED <<drafts, now, coreVars, aggVars, llmVars, ragVars, dbVars>>

\* DraftAgent.delete_draft(id): delete_one; raises when the store fails.
DeleteDraft(id, dbOk) ==
    /\ drafts' = IF dbOk THEN [i \in DOMAIN drafts \ {id} |-> drafts[i]] ELSE drafts
    /\ draftOp' = DraftCall("delete_draft", id, IF dbOk THEN "returned" ELSE "raised",
                            IF dbOk THEN "" ELSE "store", <<>>, <<>>, FALSE)
    /\ UNCHANGED <<now, coreVars, aggVars, llmVars, ragVars, dbVars>>

NextDraft ==
    \/ Tick
    \/ \E subject \in {<<"Status Update">>, <<RePrefix, "Status Update">>,
                        <<"RE: ", "Status Update">>,
                        <<RePrefix, RePrefix, "Status Update">>},
          fault \in {"none", "llm", "store"},
          fu \in {[ok |-> FALSE, lines |-> <<>>],
                  [ok |-> TRUE, lines |-> <<"f1", "f2", "f3", "f4">>]},
          d \in {0, 1} :
          GenerateReplyDraft(subject, fault, fu, d)
    \/ \E dbOk \in BOOLEAN : SaveHeldDraft(dbOk)
    \/ \E id \in 0..MaxClock, readOk \in BOOLEAN : GetDraftById(id, readOk)
    \/ \E id \in 0..MaxClock, dbOk \in BOOLEAN : DeleteDraft(id, dbOk)

SpecDraft == Init /\ [][NextDraft]_vars

(***************************************************************************)
(* Properties of the drafts                                                *)
(***************************************************************************)

\* How often the reply prefix stands in a subject.
PrefixCount(subject) ==
    Cardinality({i \in 1..Len(subject) : subject[i] = RePrefix})

\* The reply generate_reply_draft returned, and its original's subject.
ReplyReturned ==
    draftOp.op = "generate_reply_draft" /\ draftOp.out = "returned"

\* C6 as stated: the subject of a reply is the prefix followed by the
\* original subject unless the original subject starts with the prefix, then
\* it is the original subject; and no reply's subject holds the prefix twice.
C6_NeverPrefixedTwice ==
    ReplyReturned =>
        LET o == draftOp.original_subject
            s == draftOp.draft[1].subject
        IN /\ s = IF o # <<>> /\ o[1] = RePrefix THEN o ELSE <<RePrefix>> \o o
           /\ PrefixCount(s) <= 1

\* C6: the subject of a reply is the prefix followed by the original subject
\* unless the original subject starts with the prefix, then it is the
\* original subject; the reply's subject holds the prefix twice only if the
\* original subject did.
C6_ReplySubject ==
    ReplyReturned =>
        LET o == draftOp.original_subject
            s == draftOp.draft[1].subject
        IN /\ s = IF o # <<>> /\ o[1] = RePrefix THEN o ELSE <<RePrefix>> \o o
           /\ PrefixCount(s) >= 2 => PrefixCount(o) >= 2
           /\ drafts[draftOp.id].subject = s

\* A reply to an email whose subject starts with the prefix.
C6_Witness ==
    /\ ReplyReturned
    /\ draftOp.original_subject[1] = RePrefix
    /\ PrefixCount(draftOp.draft[1].subject) = 1

\* C8: a get_draft that follows a successful save of the draft with that id
\* and reads the store returns a draft with the recipient, subject, body,
\* created_at and updated_at of the draft object that was saved.
C8_DraftRoundTrip ==
    [][(/\ draftOp.op \in {"generate_reply_draft", "save_draft"}
        /\ draftOp.out = "returned"
        /\ draftOp'.op = "get_draft"
        /\ draftOp'.id = draftOp.id
        /\ draftOp'.cause = "") =>
           /\ draftOp'.out = "returned"
           /\ Len(draftOp'.draft) = 1
           /\ LET saved == draftOp.draft[1]
                  loaded == draftOp'.draft[1]
              IN /\ loaded.recipient = saved.recipient
                 /\ loaded.subject = saved.subject
                 /\ loaded.body = saved.body
                 /\ loaded.created_at = saved.created_at
                 /\ loaded.updated_at = saved.updated_at]_vars

\* A draft reloaded right after its save whose created_at has a microsecond
\* part.
C8_Witness ==
    /\ draftOp.op = "get_draft"
    /\ draftOp.after_save
    /\ draftOp.out = "returned"
    /\ draftOp.draft[1].created_at.usec # 0
    /\ draftOp.draft[1].recipient = "alice@example.com"

\* C15: a reply never fails because of its follow-up generation: when that
\* generation failed and the reply text and the store write succeeded, the
\* draft is returned and stored under its id with the generated body and no
\* follow-ups.  No draft, returned or stored, has more than 3 follow-ups.
C15_FollowupFailureTolerated ==
    /\ draftOp.op = "generate_reply_draft" =>
          /\ draftOp.cause # "followups"
          /\ (~draftOp.followups_ok /\ draftOp.cause = "") =>
                /\ draftOp.out = "returned"
                /\ draftOp.draft[1].body = "reply body"
                /\ draftOp.draft[1].suggested_followups = <<>>
                /\ draftOp.id \in DOMAIN drafts
                /\ drafts[draftOp.id] = DumpDraft(draftOp.draft[1])
    /\ \A i \in 1..Len(draftOp.draft) : Len(draftOp.draft[i].suggested_followups) <= 3
    /\ \A id \in DOMAIN drafts : Len(drafts[id].suggested_followups) <= 3

\* A reply whose follow-up generation failed, returned and stored.
C15_Witness ==
    /\ draftOp.op = "generate_reply_draft"
    /\ ~draftOp.followups_ok
    /\ draftOp.out = "returned"
    /\ draftOp.id \in DOMAIN drafts
    /\ drafts[draftOp.id].suggested_followups = <<>>

\* A reply stored with the first 3 of the 4 lines the model gave.
C15_WitnessCapped ==
    /\ draftOp.op = "generate_reply_draft"
    /\ draftOp.followups_ok
    /\ draftOp.out = "returned"
    /\ drafts[draftOp.id].suggested_followups = <<"f1", "f2", "f3">>

(***************************************************************************)
(* Vector index and RAG agent (backend/services/vector_service.py,         *)
(* backend/agents/rag_agent.py)                                            *)
(***************************************************************************)

\* answer_query(query, top_k=5)
DefaultTopK == 5

\* search_similar_emails(query, top_k=3) for the sources
SourcesTopK == 3

\* The place of an indexed email by its score for the query, best first.
\* The score is the embedding's business; a fixed order stands for it.
ScoreRank(e) ==
    CASE e = "e1" -> 1
      [] e = "e2" -> 2
      [] e = "e3" -> 3
      [] OTHER -> 4

RECURSIVE ByScore(_)
ByScore(S) ==
    IF S = {} THEN <<>>
    ELSE LET e == CHOOSE x \in S : \A y \in S : ScoreRank(x) <= ScoreRank(y)
         IN <<e>> \o ByScore(S \ {e})

\* search_similar_emails(query, top_k): the top_k best matches.
SearchSimilarEmails(ix, top_k) == Take(ByScore(ix), top_k)

\* get_relevant_context(query, top_k): one text part per match, joined; the
\* empty string when there is no match.  The context is kept as its parts.
GetRelevantContext(ix, top_k) == SearchSimilarEmails(ix, top_k)

ConfidenceAlwaysHigh(sources) == "high"

\* "high" if len(sources) >= 2 else "medium"
Confidence(sources) == IF Len(sources) >= 2 THEN "high" ELSE "medium"

\* The result of answer_query on an exception.
ErrorResult(r, failed) ==
    [r EXCEPT !.pc = "done", !.failed = failed, !.answer = "error",
              !.sources = <<>>, !.confidence = "error"]

\* The text operations of the RAG agent.  The body of a method either gives
\* a text (answer, with the ids it lists in items) or raises.
TextBody(raised, answer, items) ==
    [raised |-> raised, answer |-> answer, items |-> items]

\* The texts the four except handlers return.
ErrorTexts ==
    {"Error generating inbox summary.", "Error finding urgent emails.",
     "Error retrieving emails from sender.", "Error searching for topic."}

\* A handler that passes the exception on.
Propagate(body, message) == body

\* try: body  except Exception: return message
TryExcept(body, message) ==
    IF body.raised THEN TextBody(FALSE, message, <<>>) ELSE body

SummaryMaxEmails == 20
SummaryShown == 10
TextTopK == 5
SenderLimit == 10

\* summarize_inbox(max_emails): get_all_emails gives [] when the read fails.
SummarizeInbox(st, max_emails, readOk, llmOk) ==
    LET emails == IF readOk THEN GetAllEmails(st, max_emails) ELSE <<>>
        shown == Take(emails, SummaryShown)
    IN TryExcept(IF emails = <<>> THEN TextBody(FALSE, "Your inbox is empty.", <<>>)
                 ELSE IF llmOk
                 THEN TextBody(FALSE, "summary", [i \in 1..Len(shown) |-> shown[i].id])
                 ELSE TextBody(TRUE, "", <<>>),
                 "Error generating inbox summary.")

\* find_urgent_emails(): search_similar_emails raises when the index fails.
FindUrgentEmails(ix, searchOk) ==
    LET results == SearchSimilarEmails(ix, TextTopK)
    IN TryExcept(IF ~searchOk THEN TextBody(TRUE, "", <<>>)
                 ELSE IF results = <<>> THEN TextBody(FALSE, "No urgent emails found.", <<>>)
                 ELSE TextBody(FALSE, "Urgent/Important emails:", results),
                 "Error finding urgent emails.")

\* search_emails({"sender": {"$regex": sender}}, limit): [] when the read
\* fails.  The sender of every mock email matches "alice" and no other text.
SearchEmails(st, sender, limit, readOk) ==
    IF readOk
    THEN Take(ByTimestampDesc({e \in DOMAIN st : sender = "alice"}), limit)
    ELSE <<>>

\* get_emails_by_sender(sender)
GetEmailsBySender(st, sender, readOk) ==
    LET emails == SearchEmails(st, sender, SenderLimit, readOk)
    IN TryExcept(IF emails = <<>> THEN TextBody(FALSE, "No emails found from sender.", <<>>)
                 ELSE TextBody(FALSE, "Emails from sender:", emails),
                 "Error retrieving emails from sender.")

\* search_emails_by_topic(topic)
SearchEmailsByTopic(ix, searchOk) ==
    LET results == SearchSimilarEmails(ix, TextTopK)
    IN TryExcept(IF ~searchOk THEN TextBody(TRUE, "", <<>>)
                 ELSE IF results = <<>> THEN TextBody(FALSE, "No emails found related to topic.", <<>>)
                 ELSE TextBody(FALSE, "Emails related to topic:", results),
                 "Error searching for topic.")

(***************************************************************************)
(* SpecRag: the RAG agent over a vector index and an inbox that change     *)
(***************************************************************************)

\* VectorService.upsert_email(email)
UpsertEmail(id) ==
    /\ index' = index \cup {id}
    /\ UNCHANGED <<rag, coreVars, aggVars, llmVars, draftVars, dbVars>>

\* VectorService.delete_email(id)
DeleteEmail(id) ==
    /\ index' = index \ {id}
    /\ UNCHANGED <<rag, coreVars, aggVars, llmVars, draftVars, dbVars>>

\* answer_query up to its first await on the gateway: get_relevant_context,
\* and the fixed answer when the context is empty.
AnswerQuery(top_k, searchOk) ==
    /\ rag.pc \in {"idle", "done", "text"}
    /\ LET context == GetRelevantContext(index, top_k)
           r == [RagIdle EXCEPT !.op = "answer_query", !.top_k = top_k, !.searches = 1]
       IN rag' = IF ~searchOk THEN ErrorResult(r, "context")
                 ELSE IF context = <<>>
                 THEN [r EXCEPT !.pc = "done", !.answer = "fixed", !.confidence = "low"]
                 ELSE [r EXCEPT !.pc = "synthesizing", !.context = context]
    /\ UNCHANGED <<index, coreVars, aggVars, llmVars, draftVars, dbVars>>

\* llm_service.answer_question(question, context)
Synthesize(llmOk) ==
    /\ rag.pc = "synthesizing"
    /\ LET r == [rag EXCEPT !.llmCalls = @ + 1]
       IN rag' = IF llmOk THEN [r EXCEPT !.pc = "searching", !.answer = "llm"]
                 ELSE ErrorResult(r, "llm")
    /\ UNCHANGED <<index, coreVars, aggVars, llmVars, draftVars, dbVars>>

\* search_similar_emails(query, top_k=3) and the result.
SearchSources(searchOk) ==
    /\ rag.pc = "searching"
    /\ LET r == [rag EXCEPT !.searches = @ + 1]
           sources == SearchSimilarEmails(index, SourcesTopK)
       IN rag' = IF searchOk
                 THEN [r EXCEPT !.pc = "done", !.sources = sources,
                                !.confidence = Confidence(sources)]
                 ELSE ErrorResult(r, "sources")
    /\ UNCHANGED <<index, coreVars, aggVars, llmVars, draftVars, dbVars>>

\* save_email of a mock email into the inbox.
StoreEmail(id) ==
    /\ store' = SaveEmail(store, FreshEmail(id))
    /\ UNCHANGED <<last, rag, index, aggVars, llmVars, draftVars, dbVars>>

\* The result of a text operation: the text returned, or the exception.
TextResult(op, failed, res) ==
    [RagIdle EXCEPT !.pc = "text", !.op = op, !.failed = failed,
                    !.raised = res.raised, !.answer = res.answer, !.items = res.items]

\* RAGAgent.summarize_inbox().  The LLM is called, and so can fail, only
\* when the read gave emails.
SummarizeInboxCall(readOk, llmOk) ==
    /\ rag.pc \in {"idle", "done", "text"}
    /\ ~llmOk => (readOk /\ store # <<>>)
    /\ rag' = TextResult("summarize_inbox",
                         IF ~readOk THEN "store" ELSE IF ~llmOk THEN "llm" ELSE "",
                         SummarizeInbox(store, SummaryMaxEmails, readOk, llmOk))
    /\ UNCHANGED <<index, coreVars, aggVars, llmVars, draftVars, dbVars>>

\* RAGAgent.find_urgent_emails()
FindUrgentCall(searchOk) ==
    /\ rag.pc \in {"idle", "done", "text"}
    /\ rag' = TextResult("find_urgent_emails", IF searchOk THEN "" ELSE "search",
                         FindUrgentEmails(index, searchOk))
    /\ UNCHANGED <<index, coreVars, aggVars, llmVars, draftVars, dbVars>>

\* RAGAgent.get_emails_by_sender(sender)
BySenderCall(sender, readOk) ==
    /\ rag.pc \in {"idle", "done", "text"}
    /\ rag' = TextResult("get_emails_by_sender", IF readOk THEN "" ELSE "store",
                         GetEmailsBySender(store, sender, readOk))
    /\ UNCHANGED <<index, coreVars, aggVars, llmVars, draftVars, dbVars>>

\* RAGAgent.search_emails_by_topic(topic)
ByTopicCall(searchOk) ==
    /\ rag.pc \in {"idle", "done", "text"}
    /\ rag' = TextResult("search_emails_by_topic", IF searchOk THEN "" ELSE "search",
                         SearchEmailsByTopic(index, searchOk))
    /\ UNCHANGED <<index, coreVars, aggVars, llmVars, draftVars, dbVars>>

NextRag ==
    \/ \E id \in EmailIds : StoreEmail(id)
    \/ \E readOk, llmOk \in BOOLEAN : SummarizeInboxCall(readOk, llmOk)
    \/ \E searchOk \in BOOLEAN : FindUrgentCall(searchOk)
    \/ \E sender \in {"alice", "bob"}, readOk \in BOOLEAN : BySenderCall(sender, readOk)
    \/ \E searchOk \in BOOLEAN : ByTopicCall(searchOk)
    \/ \E id \in {"e1", "e2", "e3", "e4"} : UpsertEmail(id)
    \/ \E id \in {"e1", "e2", "e3", "e4"} : DeleteEmail(id)
    \/ \E top_k \in {1, DefaultTopK}, searchOk \in BOOLEAN : AnswerQuery(top_k, searchOk)
    \/ \E llmOk \in BOOLEAN : Synthesize(llmOk)
    \/ \E searchOk \in BOOLEAN : SearchSources(searchOk)

SpecRag == Init /\ [][NextRag]_vars

\* C7: an answer whose retrieval gave an empty context has confidence "low"
\* and no sources, and was made without an LLM call and without a second
\* search.  With a non-empty context the LLM synthesis is called exactly once
\* before the answer, and an answer made without a failing call has
\* confidence "high" if it has at least 2 sources and "medium" otherwise.
C7_AnswerConfidence ==
    /\ rag.llmCalls <= 1
    /\ rag.pc = "searching" => rag.llmCalls = 1
    /\ (rag.pc = "done" /\ rag.failed # "context") =>
          IF rag.context = <<>>
          THEN /\ rag.confidence = "low"
               /\ rag.sources = <<>>
               /\ rag.llmCalls = 0
               /\ rag.searches = 1
          ELSE /\ rag.llmCalls = 1
               /\ rag.failed = "" =>
                     /\ rag.searches = 2
                     /\ Len(rag.sources) >= 2 => rag.confidence = "high"
                     /\ Len(rag.sources) < 2 => rag.confidence = "medium"

\* An answer from a context of one match that found a single source.
C7_Witness ==
    /\ rag.pc = "done"
    /\ rag.failed = ""
    /\ Len(rag.context) = 1
    /\ Len(rag.sources) = 1
    /\ rag.confidence = "medium"

C16_WitnessAnswer ==
    /\ rag.op = "answer_query" /\ rag.pc = "done"
    /\ rag.failed = "sources"
    /\ rag.sources = <<>>

(***************************************************************************)
(* Category statistics (categorization_agent.py, database_service.py)      *)
(***************************************************************************)

\* A count query that answers with the number of all emails.
GetEmailCountAll(st, category, ok) ==
    IF ok THEN Cardinality(DOMAIN st) ELSE 0

\* get_email_count(category): count_documents({"category": value}); 0 when the
\* query raises.
GetEmailCount(st, category, ok) ==
    IF ok THEN Cardinality({e \in DOMAIN st : st[e].category = category}) ELSE 0

\* get_category_statistics(): one count query per enum value.
GetCategoryStatistics(st, countOk) ==
    [c \in EmailCategory |-> GetEmailCount(st, c, countOk[c])]

(***************************************************************************)
(* SpecRecat: batch recategorization and the statistics over three emails  *)
(***************************************************************************)

\* The stored emails at the start: each never classified, or classified as
\* INFORMATIONAL by an earlier pass.
RecatStoredEmails(id) ==
    {FreshEmail(id),
     [FreshEmail(id) EXCEPT !.category = "INFORMATIONAL",
                            !.category_reason = "Earlier reason",
                            !.classified = TRUE]}

NoRecat ==
    [op |-> "none", readOk |-> TRUE, cat |-> <<>>, db |-> <<>>, count |-> 0,
     countOk |-> <<>>, stats |-> <<>>]

InitRecat ==
    /\ store \in {st \in [{"e1", "e2", "e3"} ->
                           UNION {RecatStoredEmails(id) : id \in {"e1", "e2", "e3"}}] :
                    \A id \in {"e1", "e2", "e3"} : st[id] \in RecatStoredEmails(id)}
    /\ last = NoRecat
    /\ aggResult = AggIdle
    /\ llm = LLMIdle
    /\ drafts = <<>>
    /\ now = 0
    /\ draftOp = DraftIdle
    /\ rag = RagIdle
    /\ index = {}
    /\ mongo = [emails |-> {}, prompts |-> {}, drafts |-> {}]
    /\ req = ReqIdle

\* CategorizationAgent.recategorize_all_emails(): the call record keeps the
\* helper outcome and the store's answer for each email and the count
\* returned.
RecategorizeBatch(readOk, cat, db) ==
    /\ \A id \in DOMAIN store : cat[id].kind = "fail" => db[id]
    /\ ~readOk => \A id \in DOMAIN store : cat[id].kind = "fail"
    /\ LET emails == IF readOk THEN GetAllEmails(store, EmailLimit) ELSE <<>>
           res == RecategorizeLoop(emails, cat, db, store, 0)
       IN /\ store' = res.store
          /\ last' = [NoRecat EXCEPT !.op = "recategorize_all", !.readOk = readOk,
                                      !.cat = cat, !.db = db, !.count = res.count]
    /\ UNCHANGED <<aggVars, llmVars, draftVars, ragVars, dbVars>>

\* CategorizationAgent.get_category_statistics(); countOk[c] tells whether
\* the count query for category c is answered.
CategoryStatistics(countOk) ==
    /\ last' = [NoRecat EXCEPT !.op = "category_statistics", !.countOk = countOk,
                               !.stats = GetCategoryStatistics(store, countOk)]
    /\ UNCHANGED <<store, aggVars, llmVars, draftVars, ragVars, dbVars>>

NextRecat ==
    \/ \E readOk \in BOOLEAN,
          cat \in [DOMAIN store ->
                     {[kind |-> "fail", category |-> Missing, reason |-> Missing]}
                     \cup {[kind |-> "dict", category |-> c, reason |-> "Test reason"] :
                             c \in {"URGENT", "Important"}}],
          db \in [DOMAIN store -> BOOLEAN] :
          RecategorizeBatch(readOk, cat, db)
    \/ \E failing \in {{}} \cup {{c} : c \in EmailCategory} :
          CategoryStatistics([c \in EmailCategory |-> c \notin failing])

SpecRecat == InitRecat /\ [][NextRecat]_vars

\* The emails of a recategorize_all call whose categorization completed and
\* was persisted.
RecatDone(call) ==
    {e \in DOMAIN call.cat : call.cat[e].kind = "dict" /\ call.db[e]}

C12_StatisticsComplete ==
    last.op = "category_statistics" =>
        /\ DOMAIN last.stats =
              {"URGENT", "ACTION_REQUIRED", "INFORMATIONAL", "SPAM", "UNCATEGORIZED"}
        /\ \A c \in DOMAIN last.stats :
              last.stats[c] = IF last.countOk[c]
                              THEN Cardinality({e \in DOMAIN store : store[e].category = c})
                              ELSE 0

\* Statistics with every query answered over a store with two URGENT emails
\* and no SPAM.
C12_Witness ==
    /\ last.op = "category_statistics"
    /\ \A c \in EmailCategory : last.countOk[c]
    /\ last.stats["URGENT"] = 2
    /\ last.stats["SPAM"] = 0

(***************************************************************************)
(* The document store at the level of its documents                        *)
(* (backend/services/database_service.py, backend/main.py)                 *)
(***************************************************************************)

\* find_one({"id": id}): a document of that id, or None.
FindOne(coll, id) ==
    IF \E d \in coll : d.id = id THEN <<CHOOSE d \in coll : d.id = id>> ELSE <<>>

\* insert_one(doc)
InsertOne(coll, id, doc) == coll \cup {doc}

\* update_one({"id": id}, {"$set": doc}, upsert=True), doc being the whole dump.
UpdateOneUpsert(coll, id, doc) ==
    IF \E d \in coll : d.id = id
    THEN (coll \ {CHOOSE d \in coll : d.id = id}) \cup {doc}
    ELSE coll \cup {doc}

\* A deletion that empties the collection.
DeleteAll(coll, id) == {}

\* delete_one({"id": id})
DeleteOne(coll, id) ==
    IF \E d \in coll : d.id = id
    THEN coll \ {CHOOSE d \in coll : d.id = id}
    ELSE coll

\* PromptConfig documents.
PromptConfig(id, prompt_type, prompt_text, is_active) ==
    [id |-> id, prompt_type |-> prompt_type, prompt_text |-> prompt_text,
     is_active |-> is_active]

PromptConfigs ==
    {PromptConfig("p1", "categorization", "cat v1", TRUE),
     PromptConfig("p1", "categorization", "cat v2", TRUE),
     PromptConfig("p1", "categorization", "cat v1", FALSE),
     PromptConfig("p2", "action_item", "act v1", TRUE),
     PromptConfig("p3", "reply_draft", "reply v1", TRUE)}

\* get_active_prompt(prompt_type): an active config of the type, or None;
\* None too when the read fails.
GetActivePrompt(prompts, prompt_type, readOk) ==
    LET active == {c \in prompts : c.prompt_type = prompt_type /\ c.is_active}
    IN IF readOk /\ active # {} THEN <<CHOOSE c \in active : TRUE>> ELSE <<>>

\* settings.default_*_prompt
DefaultPrompt(prompt_type) ==
    CASE prompt_type = "categorization" -> "default category prompt"
      [] prompt_type = "action_item" -> "default action prompt"
      [] OTHER -> "default reply prompt"

\* A selection in which the active config wins over the override.
SelectPromptActiveFirst(prompts, prompt_type, custom_prompt, readOk) ==
    LET config == GetActivePrompt(prompts, prompt_type, readOk)
    IN IF config # <<>> THEN config[1].prompt_text ELSE custom_prompt

\* if not custom_prompt: the active config's text, if there is one.
SelectPrompt(prompts, prompt_type, custom_prompt, readOk) ==
    IF custom_prompt \notin {None, ""}
    THEN custom_prompt
    ELSE LET config == GetActivePrompt(prompts, prompt_type, readOk)
         IN IF config # <<>> THEN config[1].prompt_text ELSE custom_prompt

\* prompt = custom_prompt or settings.default_*_prompt: the text the model gets.
EffectivePrompt(custom_prompt, prompt_type) ==
    IF custom_prompt \in {None, ""} THEN DefaultPrompt(prompt_type) ELSE custom_prompt

\* The outcome of a request: what it returned or raised, the collections
\* after it, the prompts the LLM was given and the writes done.
Outcome(d, out, cause, sent, writes, value) ==
    [db |-> d, out |-> out, cause |-> cause, sent |-> sent, writes |-> writes,
     value |-> value]

\* A categorization that saves the email with an empty action-item list.
CategorizeWithPromptClearing(d, email, custom_prompt, promptOk, r, dbOk) ==
    LET text == SelectPrompt(d.prompts, "categorization", custom_prompt, promptOk)
        res == CategorizeSingleEmail([email EXCEPT !.action_items = <<>>], r, dbOk)
    IN Outcome(IF res.saved
               THEN [d EXCEPT !.emails = UpdateOneUpsert(@, email.id, res.email)]
               ELSE d,
               res.out, res.cause, <<EffectivePrompt(text, "categorization")>>,
               IF res.saved THEN 1 ELSE 0, <<res.email>>)

\* CategorizationAgent.categorize_single_email(email, custom_prompt)
CategorizeWithPrompt(d, email, custom_prompt, promptOk, r, dbOk) ==
    LET text == SelectPrompt(d.prompts, "categorization", custom_prompt, promptOk)
        res == CategorizeSingleEmail(email, r, dbOk)
    IN Outcome(IF res.saved
               THEN [d EXCEPT !.emails = UpdateOneUpsert(@, email.id, res.email)]
               ELSE d,
               res.out, res.cause, <<EffectivePrompt(text, "categorization")>>,
               IF res.saved THEN 1 ELSE 0, <<res.email>>)

\* ActionItemAgent.extract_action_items(email, custom_prompt)
ExtractWithPrompt(d, email, custom_prompt, promptOk, x, dbOk) ==
    LET text == SelectPrompt(d.prompts, "action_item", custom_prompt, promptOk)
        res == ExtractActionItems(email, x, dbOk)
    IN Outcome(IF res.saved
               THEN [d EXCEPT !.emails = UpdateOneUpsert(@, email.id, res.email)]
               ELSE d,
               res.out, res.cause, <<EffectivePrompt(text, "action_item")>>,
               IF res.saved THEN 1 ELSE 0, <<res.email>>)

\* DraftAgent.generate_reply_draft(email, custom_prompt=custom_prompt): the
\* reply text with the selected prompt, the follow-ups (their own prompt,
\* failures swallowed), the draft under the id newId, save_draft.
ReplyWithPrompt(d, email, custom_prompt, promptOk, fault, newId) ==
    LET text == SelectPrompt(d.prompts, "reply_draft", custom_prompt, promptOk)
        sent == <<EffectivePrompt(text, "reply_draft")>>
        draft == DumpDraft([NewDraft(0, email.id, "alice@example.com",
                                     ReplySubject(<<"Status Update">>), "reply body",
                                     <<>>)
                              EXCEPT !.id = newId])
    IN CASE fault = "llm" -> Outcome(d, "raised", "llm", sent, 0, <<>>)
         [] fault = "store" ->
               Outcome(d, "raised", "store", sent \o <<"follow-ups">>, 0, <<>>)
         [] OTHER ->
               Outcome([d EXCEPT !.drafts = UpdateOneUpsert(@, newId, draft)],
                       "returned", "", sent \o <<"follow-ups">>, 1, <<draft>>)

\* EmailProductivityBackend.generate_reply_draft(email_id): get_email gives
\* None when there is no such email and when the read fails.
GenerateReplyDraftById(d, email_id, readOk, promptOk, fault, newId) ==
    LET email == IF readOk THEN FindOne(d.emails, email_id) ELSE <<>>
    IN IF email = <<>>
       THEN Outcome(d, "raised", "not_found", <<>>, 0, <<>>)
       ELSE ReplyWithPrompt(d, email[1], None, promptOk, fault, newId)

\* EmailProductivityBackend.refine_draft(draft_id, instruction): get_draft
\* gives None when there is no such draft and when the read fails.
RefineDraftById(d, draft_id, readOk, fault) ==
    LET draft == IF readOk THEN FindOne(d.drafts, draft_id) ELSE <<>>
        refined == IF draft = <<>> THEN <<>>
                   ELSE <<[draft[1] EXCEPT !.body = "refined body"]>>
    IN IF draft = <<>>
       THEN Outcome(d, "raised", "not_found", <<>>, 0, <<>>)
       ELSE CASE fault = "llm" -> Outcome(d, "raised", "llm", <<"refine">>, 0, <<>>)
              [] fault = "store" -> Outcome(d, "raised", "store", <<"refine">>, 0, <<>>)
              [] OTHER ->
                    Outcome([d EXCEPT !.drafts = UpdateOneUpsert(@, draft_id, refined[1])],
                            "returned", "", <<"refine">>, 1, refined)

\* get_email_by_id / get_draft_by_id: the record or None.
GetById(coll, id, readOk) ==
    LET found == IF readOk THEN FindOne(coll, id) ELSE <<>>
    IN [out |-> IF found = <<>> THEN "none" ELSE "returned", value |-> found]

(***************************************************************************)
(* SpecDb: requests over the three collections                             *)
(***************************************************************************)

\* The record of a request: its arguments, the failure injected, whether the
\* record it names was absent when it began, and its outcome.
Request(op, coll, id, fault, absent, custom, o) ==
    [op |-> op, coll |-> coll, id |-> id, out |-> o.out, cause |-> o.cause,
     fault |-> fault, absent |-> absent, llmCalls |-> Len(o.sent),
     writes |-> o.writes, custom |-> custom, sent |-> o.sent, value |-> o.value]

Absent(coll, id) == FindOne(coll, id) = <<>>

\* DatabaseService.save_email(email)
SaveEmailRecord(id, doc, dbOk) ==
    /\ doc.id = id
    /\ mongo' = IF dbOk
                THEN [mongo EXCEPT !.emails = UpdateOneUpsert(@, id, doc)]
                ELSE mongo
    /\ req' = Request("save_email", "emails", id, IF dbOk THEN "none" ELSE "store",
                      Absent(mongo.emails, id), None,
                      Outcome(mongo', IF dbOk THEN "returned" ELSE "raised",
                              IF dbOk THEN "" ELSE "store", <<>>,
                              IF dbOk THEN 1 ELSE 0, <<doc>>))
    /\ UNCHANGED <<coreVars, aggVars, llmVars, draftVars, ragVars>>

\* A save_prompt that keeps the saved config the only active one of its
\* type by deactivating the others.
SavePromptDeactivatingOthers(prompt, dbOk) ==
    /\ dbOk
    /\ mongo' = [mongo EXCEPT !.prompts =
                    {IF c.prompt_type = prompt.prompt_type /\ prompt.is_active
                     THEN [c EXCEPT !.is_active = FALSE] ELSE c :
                         c \in {d \in @ : d.id # prompt.id}} \cup {prompt}]
    /\ req' = Request("save_prompt", "prompts", prompt.id, "none",
                      Absent(mongo.prompts, prompt.id), None,
                      Outcome(mongo', "returned", "", <<>>, 1, <<prompt>>))
    /\ UNCHANGED <<coreVars, aggVars, llmVars, draftVars, ragVars>>

\* EmailProductivityBackend.save_prompt_config(prompt_config)
SavePromptConfig(prompt, dbOk) ==
    /\ mongo' = IF dbOk
                THEN [mongo EXCEPT !.prompts = UpdateOneUpsert(@, prompt.id, prompt)]
                ELSE mongo
    /\ req' = Request("save_prompt", "prompts", prompt.id,
                      IF dbOk THEN "none" ELSE "store",
                      Absent(mongo.prompts, prompt.id), None,
                      Outcome(mongo', IF dbOk THEN "returned" ELSE "raised",
                              IF dbOk THEN "" ELSE "store", <<>>,
                              IF dbOk THEN 1 ELSE 0, <<prompt>>))
    /\ UNCHANGED <<coreVars, aggVars, llmVars, draftVars, ragVars>>

\* categorize_single_email on a stored email, with or without an override.
\* The prompt lookup can fail only when it is made.
CategorizeStored(id, custom, promptOk, r, dbOk) ==
    /\ ~Absent(mongo.emails, id)
    /\ ~promptOk => custom \in {None, ""}
    /\ r.kind = "fail" => dbOk
    /\ LET o == CategorizeWithPrompt(mongo, FindOne(mongo.emails, id)[1], custom,
                                     promptOk, r, dbOk)
       IN /\ mongo' = o.db
          /\ req' = Request("categorize", "emails", id,
                            IF ~promptOk THEN "prompt" ELSE IF ~dbOk THEN "store"
                            ELSE IF r.kind = "fail" THEN "llm" ELSE "none",
                            FALSE, custom, o)
    /\ UNCHANGED <<coreVars, aggVars, llmVars, draftVars, ragVars>>

\* extract_action_items on a stored email, with or without an override.
ExtractStored(id, custom, promptOk, x, dbOk) ==
    /\ ~Absent(mongo.emails, id)
    /\ ~promptOk => custom \in {None, ""}
    /\ x.kind = "fail" => dbOk
    /\ LET o == ExtractWithPrompt(mongo, FindOne(mongo.emails, id)[1], custom,
                                  promptOk, x, dbOk)
       IN /\ mongo' = o.db
          /\ req' = Request("extract", "emails", id,
                            IF ~promptOk THEN "prompt" ELSE IF ~dbOk THEN "store"
                            ELSE IF x.kind = "fail" THEN "llm" ELSE "none",
                            FALSE, custom, o)
    /\ UNCHANGED <<coreVars, aggVars, llmVars, draftVars, ragVars>>

\* DraftAgent.generate_reply_draft on a stored email, with or without an
\* override.  The draft's id is the reading of the clock when it is built
\* (str(datetime.now().timestamp())): newId, which a stored draft may have.
ReplyStored(id, custom, promptOk, fault, newId) ==
    /\ ~Absent(mongo.emails, id)
    /\ ~promptOk => custom \in {None, ""}
    /\ LET o == ReplyWithPrompt(mongo, FindOne(mongo.emails, id)[1], custom, promptOk,
                                fault, newId)
       IN /\ mongo' = o.db
          /\ req' = Request("reply", "drafts", newId,
                            IF ~promptOk THEN "prompt" ELSE fault,
                            Absent(mongo.drafts, newId), custom, o)
    /\ UNCHANGED <<coreVars, aggVars, llmVars, draftVars, ragVars>>

\* EmailProductivityBackend.generate_reply_draft(email_id).  What fails after
\* the read can fail, and the draft's id matters, only when the read gave the
\* email.
GenerateReplyDraftRequest(id, readOk, promptOk, fault, newId) ==
    /\ (~readOk \/ Absent(mongo.emails, id)) =>
          (promptOk /\ fault = "none" /\ newId = "d1")
    /\ LET o == GenerateReplyDraftById(mongo, id, readOk, promptOk, fault, newId)
       IN /\ mongo' = o.db
          /\ req' = Request("generate_reply_draft", "emails", id,
                            IF ~readOk THEN "read" ELSE IF ~promptOk THEN "prompt"
                            ELSE fault,
                            Absent(mongo.emails, id), None, o)
    /\ UNCHANGED <<coreVars, aggVars, llmVars, draftVars, ragVars>>

\* EmailProductivityBackend.refine_draft(draft_id, instruction)
RefineDraftRequest(id, readOk, fault) ==
    /\ (~readOk \/ Absent(mongo.drafts, id)) => fault = "none"
    /\ LET o == RefineDraftById(mongo, id, readOk, fault)
       IN /\ mongo' = o.db
          /\ req' = Request("refine_draft", "drafts", id,
                            IF ~readOk THEN "read" ELSE fault,
                            Absent(mongo.drafts, id), None, o)
    /\ UNCHANGED <<coreVars, aggVars, llmVars, draftVars, ragVars>>

\* EmailProductivityBackend.get_email_by_id(email_id)
GetEmailRequest(id, readOk) ==
    /\ LET got == GetById(mongo.emails, id, readOk)
       IN req' = Request("get_email", "emails", id, IF readOk THEN "none" ELSE "read",
                         Absent(mongo.emails, id), None,
                         Outcome(mongo, got.out, "", <<>>, 0, got.value))
    /\ UNCHANGED <<mongo, coreVars, aggVars, llmVars, draftVars, ragVars>>

\* EmailProductivityBackend.get_draft_by_id(draft_id)
GetDraftRequest(id, readOk) ==
    /\ LET got == GetById(mongo.drafts, id, readOk)
       IN req' = Request("get_draft", "drafts", id, IF readOk THEN "none" ELSE "read",
                         Absent(mongo.drafts, id), None,
                         Outcome(mongo, got.out, "", <<>>, 0, got.value))
    /\ UNCHANGED <<mongo, coreVars, aggVars, llmVars, draftVars, ragVars>>

\* EmailProductivityBackend.delete_draft(draft_id)
DeleteDraftRequest(id, dbOk) ==
    /\ mongo' = IF dbOk THEN [mongo EXCEPT !.drafts = DeleteOne(@, id)] ELSE mongo
    /\ req' = Request("delete_draft", "drafts", id, IF dbOk THEN "none" ELSE "store",
                      Absent(mongo.drafts, id), None,
                      Outcome(mongo', IF dbOk THEN "returned" ELSE "raised",
                              IF dbOk THEN "" ELSE "store", <<>>, 0, <<>>))
    /\ UNCHANGED <<coreVars, aggVars, llmVars, draftVars, ragVars>>

NextDb ==
    \/ \E id \in EmailIds, dbOk \in BOOLEAN :
          \E doc \in {FreshEmail(id),
                       [FreshEmail(id) EXCEPT !.category = "URGENT", !.classified = TRUE]} :
             SaveEmailRecord(id, doc, dbOk)
    \/ \E prompt \in PromptConfigs, dbOk \in BOOLEAN : SavePromptConfig(prompt, dbOk)
    \/ \E id \in EmailIds \cup {"e2"}, readOk \in BOOLEAN, promptOk \in BOOLEAN,
          fault \in {"none", "llm", "store"}, newId \in {"d1", "d2"} :
          GenerateReplyDraftRequest(id, readOk, promptOk, fault, newId)
    \/ \E id \in {"d1", "d2"}, readOk \in BOOLEAN, fault \in {"none", "llm", "store"} :
          RefineDraftRequest(id, readOk, fault)
    \/ \E id \in EmailIds \cup {"e2"}, readOk \in BOOLEAN : GetEmailRequest(id, readOk)
    \/ \E id \in {"d1", "d2"}, readOk \in BOOLEAN : GetDraftRequest(id, readOk)
    \/ \E id \in {"d1", "d2"}, dbOk \in BOOLEAN : DeleteDraftRequest(id, dbOk)

SpecDb == Init /\ [][NextDb]_vars

\* SpecPrompt: the agents' prompt selection over the prompts collection.
NextPrompt ==
    \/ \E id \in EmailIds, dbOk \in BOOLEAN : SaveEmailRecord(id, FreshEmail(id), dbOk)
    \/ \E prompt \in PromptConfigs, dbOk \in BOOLEAN : SavePromptConfig(prompt, dbOk)
    \/ \E id \in EmailIds, custom \in {None, "", "override"}, promptOk \in BOOLEAN,
          r \in {c \in CatOutcomes : c.kind = "fail" \/ c.category = "URGENT"},
          dbOk \in BOOLEAN :
          CategorizeStored(id, custom, promptOk, r, dbOk)
    \/ \E id \in EmailIds, custom \in {None, "", "override"}, promptOk \in BOOLEAN,
          x \in {l \in ExtOutcomes :
                    \/ l.kind = "fail"
                    \/ Len(l.items) = 1 /\ l.items[1] \in ValidItemDicts
                                        /\ l.items[1].completed = Missing},
          dbOk \in BOOLEAN :
          ExtractStored(id, custom, promptOk, x, dbOk)
    \/ \E id \in EmailIds, custom \in {None, "", "override"}, promptOk \in BOOLEAN,
          fault \in {"none", "llm", "store"} : ReplyStored(id, custom, promptOk, fault, "d1")

SpecPrompt == Init /\ [][NextPrompt]_vars

(***************************************************************************)
(* Properties of the collections and of the prompt selection               *)
(***************************************************************************)

IdsOf(coll) == {d.id : d \in coll}

\* C17: no step removes an email id or a prompt id from its collection.  A
\* delete_draft that returns leaves emails and prompts as they were and
\* leaves of the drafts exactly those with another id (all of them when no
\* draft has the id); one that raises on a store failure changes nothing.
C17_OnlyDraftsDeleted ==
    [][/\ IdsOf(mongo.emails) \subseteq IdsOf(mongo'.emails)
       /\ IdsOf(mongo.prompts) \subseteq IdsOf(mongo'.prompts)
       /\ req'.op = "delete_draft" =>
             /\ mongo'.emails = mongo.emails
             /\ mongo'.prompts = mongo.prompts
             /\ mongo'.drafts = IF req'.out = "returned"
                                THEN {d \in mongo.drafts : d.id # req'.id}
                                ELSE mongo.drafts]_vars

\* A delete of one of two drafts, with an email and a prompt stored: the
\* other draft, the email and the prompt are there.
C17_Witness ==
    /\ req.op = "delete_draft" /\ req.out = "returned" /\ ~req.absent
    /\ Cardinality(mongo.drafts) = 1
    /\ mongo.emails # {}
    /\ mongo.prompts # {}

\* A delete of an id no draft has, with a draft stored.
C17_WitnessNoOp ==
    /\ req.op = "delete_draft" /\ req.out = "returned" /\ req.absent
    /\ mongo.drafts # {}

\* The collection a request saved into and the requests that save.
SavedInto(r) ==
    CASE r.op = "save_email" -> mongo.emails
      [] r.op = "save_prompt" -> mongo.prompts
      [] OTHER -> mongo.drafts

Saved(r) ==
    /\ r.op \in {"save_email", "save_prompt", "generate_reply_draft", "refine_draft"}
    /\ r.out = "returned"

\* C18: no collection holds two documents of one id, and right after a save
\* that returned, a read of the saved id gives the document just saved.
C18_OneRecordPerId ==
    /\ \A coll \in {mongo.emails, mongo.prompts, mongo.drafts} :
          \A a, b \in coll : a.id = b.id => a = b
    /\ Saved(req) => GetById(SavedInto(req), req.value[1].id, TRUE).value = req.value

\* A save of a prompt over a stored prompt of the same id: one document, the
\* new one.
C18_Witness ==
    /\ req.op = "save_prompt" /\ req.out = "returned" /\ ~req.absent
    /\ req.value[1].prompt_text = "cat v2"
    /\ mongo.prompts = {req.value[1]}

\* A refined draft saved over the stored draft of its id.
C18_WitnessDraft ==
    /\ req.op = "refine_draft" /\ req.out = "returned"
    /\ Cardinality({d \in mongo.drafts : d.id = req.id}) = 1
    /\ FindOne(mongo.drafts, req.id)[1].body = "refined body"

\* The prompt type an agent operation looks up.
PromptTypeOf(op) ==
    CASE op = "categorize" -> "categorization"
      [] op = "extract" -> "action_item"
      [] OTHER -> "reply_draft"

\* C19: categorize, extract and reply leave the prompts collection as it
\* was.  With an override text the LLM is given that text; without one
\* (None or the empty text) it is given the text of the active config of the
\* operation's type, and the default prompt when there is no active config
\* or the lookup fails.  This holds for every call, whatever the call before.
C19_OverrideBypassesLookup ==
    [][req'.op \in {"categorize", "extract", "reply"} =>
          LET active == {c \in mongo.prompts :
                            c.prompt_type = PromptTypeOf(req'.op) /\ c.is_active}
          IN /\ mongo'.prompts = mongo.prompts
             /\ req'.llmCalls >= 1
             /\ IF req'.custom \notin {None, ""}
                THEN req'.sent[1] = req'.custom
                ELSE IF active # {} /\ req'.fault # "prompt"
                THEN \E c \in active : req'.sent[1] = c.prompt_text
                ELSE req'.sent[1] = DefaultPrompt(PromptTypeOf(req'.op))]_vars

\* A categorization with an override while an active categorization config
\* of another text is stored.
C19_Witness ==
    /\ req.op = "categorize" /\ req.out = "returned"
    /\ req.custom = "override"
    /\ req.sent = <<"override">>
    /\ \E c \in mongo.prompts : c.prompt_type = "categorization" /\ c.is_active

\* A reply without override that was given the active reply config's text.
C19_WitnessActive ==
    /\ req.op = "reply" /\ req.out = "returned"
    /\ req.custom = None
    /\ req.sent[1] = "reply v1"

\* The requests by id and their not-found outcome: the ValueError of
\* generate_reply_draft and refine_draft, the None of the get operations.
ByIdRequest(r) == r.op \in {"generate_reply_draft", "refine_draft", "get_email", "get_draft"}

NotFound(r) == r.cause = "not_found" \/ r.out = "none"

\* C20: a request by id ends in the not-found outcome, with no LLM call and
\* no store write, when the record is absent, and only then: never when the
\* record is stored.
C20_NotFoundOnlyWhenMissing ==
    ByIdRequest(req) =>
        /\ req.absent => (NotFound(req) /\ req.llmCalls = 0 /\ req.writes = 0)
        /\ NotFound(req) => req.absent

(***************************************************************************)
(* SpecIngest: process_email_batch, one step of process_email at a time    *)
(* (backend/services/email_service.py)                                     *)
(***************************************************************************)

\* The batch moves on from the email at pos: to the next email of the input,
\* or to its return.  A process_email that raised is skipped with its cause;
\* one that returned is appended to processed_emails.
NextEmailAborting(l, cause) ==
    [l EXCEPT !.pos = IF cause = "" THEN @ + 1 ELSE Len(l.input) + 1,
              !.pc = IF cause = "" /\ l.pos < Len(l.input) THEN "categorize" ELSE "returned",
              !.email = IF cause = "" /\ l.pos < Len(l.input)
                        THEN <<FreshEmail(l.input[l.pos + 1])>> ELSE <<>>,
              !.processed = IF cause = "" THEN Append(@, l.email[1]) ELSE @,
              !.skipped = IF cause = "" THEN @ ELSE Append(@, <<l.input[l.pos], cause>>)]

NextEmail(l, cause) ==
    [l EXCEPT !.pos = @ + 1,
              !.pc = IF l.pos < Len(l.input) THEN "categorize" ELSE "returned",
              !.email = IF l.pos < Len(l.input)
                        THEN <<FreshEmail(l.input[l.pos + 1])>> ELSE <<>>,
              !.processed = IF cause = "" THEN Append(@, l.email[1]) ELSE @,
              !.skipped = IF cause = "" THEN @ ELSE Append(@, <<l.input[l.pos], cause>>)]

\* process_email_batch(emails) begins: the loaded emails, in input order.
StartBatch(input) ==
    /\ IF last.op = "process_email_batch" THEN last.pc \in {"returned", "crashed"} ELSE TRUE
    /\ last' = [op |-> "process_email_batch", input |-> input, pos |-> 1,
                pc |-> "categorize", email |-> <<FreshEmail(input[1])>>,
                processed |-> <<>>, skipped |-> <<>>, steps |-> <<>>]
    /\ UNCHANGED <<store, index, aggVars, llmVars, draftVars, dbVars, rag>>

\* Step 1: categorize_email and EmailCategory(category_result.get(...)).
CategorizeStep(r) ==
    /\ last.op = "process_email_batch" /\ last.pc = "categorize"
    /\ LET label == DictGet(r.category, "UNCATEGORIZED")
           cause == IF r.kind = "fail" THEN "llm"
                    ELSE IF r.kind = "nondict" THEN "result"
                    ELSE IF label \notin EmailCategory THEN "label" ELSE ""
           l == [last EXCEPT !.steps = IF cause = "" THEN <<"categorize">> ELSE <<>>]
       IN last' = IF cause # "" THEN NextEmail(l, cause)
                  ELSE [l EXCEPT !.pc = "extract",
                                 !.email[1].category = label,
                                 !.email[1].category_reason = DictGet(r.reason, ""),
                                 !.email[1].classified = TRUE]
    /\ UNCHANGED <<store, index, aggVars, llmVars, draftVars, dbVars, rag>>

\* An extraction step that goes on with no items when the helper raises.
ExtractStepLenient(x) ==
    /\ last.op = "process_email_batch" /\ last.pc = "extract"
    /\ last' = [last EXCEPT !.pc = "save", !.steps = IF x.kind = "fail" THEN @
                                                      ELSE Append(@, "extract")]
    /\ UNCHANGED <<store, index, aggVars, llmVars, draftVars, dbVars, rag>>

\* Step 2: extract_action_items and ActionItem(**item) for each item.
ExtractStep(x) ==
    /\ last.op = "process_email_batch" /\ last.pc = "extract"
    /\ LET cause == IF x.kind = "fail" THEN "llm"
                    ELSE IF \E i \in 1..Len(x.items) : ~ActionItemValid(x.items[i])
                    THEN "item" ELSE ""
       IN last' = IF cause # "" THEN NextEmail(last, cause)
                  ELSE [last EXCEPT
                          !.pc = "save", !.steps = Append(@, "extract"),
                          !.email[1].action_items =
                              [i \in 1..Len(x.items) |-> ActionItemOf(x.items[i])]]
    /\ UNCHANGED <<store, index, aggVars, llmVars, draftVars, dbVars, rag>>

\* A save step that goes on to the index when the write fails.
SaveStepContinuing(dbOk) ==
    /\ last.op = "process_email_batch" /\ last.pc = "save"
    /\ store' = IF dbOk THEN SaveEmail(store, last.email[1]) ELSE store
    /\ last' = [last EXCEPT !.pc = "index", !.steps = Append(@, "save")]
    /\ UNCHANGED <<index, aggVars, llmVars, draftVars, dbVars, rag>>

\* Step 3: db_service.save_email(email)
SaveStep(dbOk) ==
    /\ last.op = "process_email_batch" /\ last.pc = "save"
    /\ store' = IF dbOk THEN SaveEmail(store, last.email[1]) ELSE store
    /\ last' = IF dbOk THEN [last EXCEPT !.pc = "index", !.steps = Append(@, "save")]
               ELSE NextEmail(last, "store")
    /\ UNCHANGED <<index, aggVars, llmVars, draftVars, dbVars, rag>>

\* An index step that saves the email again with its embedding id.
IndexStepPersisting(vecOk) ==
    /\ last.op = "process_email_batch" /\ last.pc = "index"
    /\ LET id == last.email[1].id
           l == [last EXCEPT !.email[1].embedding_id = id, !.steps = Append(@, "index")]
       IN /\ index' = index \cup {id}
          /\ store' = SaveEmail(store, l.email[1])
          /\ last' = NextEmail(l, "")
    /\ UNCHANGED <<aggVars, llmVars, draftVars, dbVars, rag>>

\* Step 4: email.embedding_id = vector_service.upsert_email(email.id, ...),
\* and the return of process_email.
IndexStep(vecOk) ==
    /\ last.op = "process_email_batch" /\ last.pc = "index"
    /\ LET id == last.email[1].id
       IN /\ index' = IF vecOk THEN index \cup {id} ELSE index
          /\ last' = IF vecOk
                     THEN NextEmail([last EXCEPT !.email[1].embedding_id = id,
                                                 !.steps = Append(@, "index")], "")
                     ELSE NextEmail(last, "vector")
    /\ UNCHANGED <<store, aggVars, llmVars, draftVars, dbVars, rag>>

\* The process dies between two steps.
Crash ==
    /\ last.op = "process_email_batch"
    /\ last.pc \in {"categorize", "extract", "save", "index"}
    /\ last' = [last EXCEPT !.pc = "crashed"]
    /\ UNCHANGED <<store, index, aggVars, llmVars, draftVars, dbVars, rag>>

NextIngest ==
    \/ \E input \in {<<"e1", "e2">>, <<"e2", "e1">>} : StartBatch(input)
    \/ \E r \in {c \in CatOutcomes : c.reason # Missing \/ c.kind # "dict"} :
           CategorizeStep(r)
    \/ \E x \in {l \in ExtOutcomes : IF l.kind = "fail" THEN TRUE
                                      ELSE Len(l.items) = 1 /\ l.items[1].completed = Missing} :
           ExtractStep(x)
    \/ \E dbOk \in BOOLEAN : SaveStep(dbOk)
    \/ \E vecOk \in BOOLEAN : IndexStep(vecOk)
    \/ Crash

SpecIngest == Init /\ [][NextIngest]_vars

Ingesting == last.op = "process_email_batch"

IsPrefix(s, t) == Len(s) <= Len(t) /\ \A i \in 1..Len(s) : s[i] = t[i]

SeqIds(emails) == [i \in 1..Len(emails) |-> emails[i].id]

SkippedIds(l) == {l.skipped[i][1] : i \in 1..Len(l.skipped)}

\* C21 (as the code has it): for each email the steps run in the order
\* categorize, extract action items, persist, embed/index: the store write
\* of an email happens before its vector-index upsert (the index only gains
\* an id whose email the store already holds as the pipeline built it), and
\* the store is written only after both LLM steps have succeeded.
C21_PersistThenIndex ==
    [][IF Ingesting /\ last'.op = "process_email_batch"
       THEN /\ IsPrefix(last'.steps, <<"categorize", "extract", "save", "index">>)
            /\ store' # store =>
                   last.pc = "save" /\ last.steps = <<"categorize", "extract">>
            /\ index' # index =>
                   /\ last.steps = <<"categorize", "extract", "save">>
                   /\ last.email[1].id \in DOMAIN store
                   /\ store[last.email[1].id] = last.email[1]
       ELSE UNCHANGED <<store, index>>]_vars

\* A process_email that ran all four steps.
C21_Witness ==
    /\ Ingesting
    /\ last.steps = <<"categorize", "extract", "save", "index">>
    /\ Len(last.processed) > 0
    /\ last.processed[Len(last.processed)].id \in index \cap DOMAIN store

\* C21 as stated: the steps of an email run in the order categorize,
\* extract, embed/index, persist.
C21_IndexThenPersist ==
    Ingesting => IsPrefix(last.steps, <<"categorize", "extract", "index", "save">>)

\* C22: in every state of the ingestion, after a failure or a crash at any
\* step as well, every id in the vector index is an id of the email store;
\* an email that is stored stays stored (nothing is rolled back), and a
\* failed upsert leaves the index as it was.
C22_IndexedImpliesStored ==
    [][/\ index \subseteq DOMAIN store
       /\ index' \subseteq DOMAIN store'
       /\ DOMAIN store \subseteq DOMAIN store'
       /\ index \subseteq index']_vars

\* The process died between the save and the upsert: stored, not indexed.
C22_Witness ==
    /\ Ingesting /\ last.pc = "crashed"
    /\ last.steps = <<"categorize", "extract", "save">>
    /\ last.email[1].id \in DOMAIN store \ index

\* The upsert raised and the batch went on and returned: the email is still
\* stored, still not indexed.
C22_WitnessUpsertFailed ==
    /\ Ingesting /\ last.pc = "returned"
    /\ \E i \in 1..Len(last.skipped) :
           /\ last.skipped[i][2] = "vector"
           /\ last.skipped[i][1] \in DOMAIN store \ index

\* C23: process_email_batch takes the emails one at a time in input order;
\* an email whose processing raises is skipped, the batch goes on with the
\* next email, and no step writes a stored email other than the one being
\* processed; the returned list is the emails that went through all four
\* steps, in input order.
C23_BatchSkipsFailures ==
    [][IF Ingesting /\ last'.op = "process_email_batch" /\ last.pc # "returned"
       THEN /\ Len(last.processed) + Len(last.skipped) = last.pos - 1
            /\ SeqIds(last'.processed)
                   = SelectSeq(SubSeq(last'.input, 1, last'.pos - 1),
                               LAMBDA id : id \notin SkippedIds(last'))
            /\ \A i \in 1..Len(last'.processed) :
                   LET e == last'.processed[i]
                   IN e.embedding_id = e.id /\ e.id \in index' \cap DOMAIN store'
            /\ \A id \in DOMAIN store :
                   id # last.input[last.pos] => store'[id] = store[id]
            /\ last'.pc = "returned" => last'.pos = Len(last'.input) + 1
            /\ Len(last'.skipped) > Len(last.skipped) =>
                   /\ last'.pos = last.pos + 1
                   /\ last'.pc = IF last.pos < Len(last.input)
                                 THEN "categorize" ELSE "returned"
       ELSE TRUE]_vars

\* The first email of the batch raised, the second one was processed and is
\* the whole result.
C23_Witness ==
    /\ Ingesting /\ last.pc = "returned"
    /\ Len(last.skipped) = 1 /\ last.skipped[1][1] = last.input[1]
    /\ SeqIds(last.processed) = <<last.input[2]>>

\* C24 as stated: in process_email a label outside the enum never makes the
\* processing of the email fail.
C24_InvalidLabelCoerced ==
    Ingesting => \A i \in 1..Len(last.skipped) : last.skipped[i][2] # "label"

\* C27: the email is saved before the upsert and not again: every email the
\* batch returns carries embedding_id equal to the upsert's id, and no
\* stored record has an embedding_id.
C27_EmbeddingIdNotStored ==
    /\ \A id \in DOMAIN store : store[id].embedding_id = None
    /\ Ingesting =>
           \A i \in 1..Len(last.processed) :
               last.processed[i].embedding_id = last.processed[i].id

\* A processed email: returned with its embedding id, stored without.
C27_Witness ==
    /\ Ingesting /\ Len(last.processed) > 0
    /\ LET e == last.processed[1]
       IN /\ e.embedding_id = e.id /\ e.id \in index
          /\ store[e.id] = [e EXCEPT !.embedding_id = None]

(***************************************************************************)
(* SpecConfig: the prompts collection under save_prompt and the active     *)
(* lookup (backend/services/database_service.py, backend/main.py)          *)
(***************************************************************************)

\* get_active_prompt(prompt_type) as get_active_prompts calls it: find_one
\* on {prompt_type, is_active: True} gives one of the matching documents,
\* whichever the collection yields first; None when there is none or the
\* read fails.  The request's id field holds the prompt type looked up.
GetActivePromptRequest(prompt_type, readOk) ==
    LET active == {c \in mongo.prompts : c.prompt_type = prompt_type /\ c.is_active}
    IN /\ \E v \in IF readOk /\ active # {} THEN {<<c>> : c \in active} ELSE {<<>>} :
              req' = Request("get_active_prompt", "prompts", prompt_type,
                             IF readOk THEN "none" ELSE "store", active = {}, None,
                             Outcome(mongo, "returned", "", <<>>, 0, v))
       /\ UNCHANGED <<mongo, coreVars, aggVars, llmVars, draftVars, ragVars>>

NextConfig ==
    \/ \E prompt \in PromptConfigs
                     \cup {PromptConfig("p4", "categorization", "cat v2", TRUE)},
          dbOk \in BOOLEAN :
          SavePromptConfig(prompt, dbOk)
    \/ \E prompt_type \in {"categorization", "action_item", "reply_draft"},
          readOk \in BOOLEAN :
          GetActivePromptRequest(prompt_type, readOk)

SpecConfig == Init /\ [][NextConfig]_vars

ActiveOf(prompts, prompt_type) ==
    {c \in prompts : c.prompt_type = prompt_type /\ c.is_active}

\* C25 as stated: in every state of the prompts collection at most one
\* config per prompt_type is active.
C25_AtMostOneActive ==
    \A a, b \in mongo.prompts :
        a.prompt_type = b.prompt_type /\ a.is_active /\ b.is_active => a = b

\* C25 (as the code has it): save_prompt writes the record of its own id
\* and leaves every other config as it was, is_active included, so the
\* collection holds at most one active config of a type only as long as the
\* callers save no second one: a save keeps "at most one active per type"
\* exactly when the saved config is inactive or no config of another id is
\* active for its type.  The active lookup returns an active config of the
\* type when there is one and the read works, and nothing otherwise.
C25_SaveLeavesOthers ==
    [][/\ (req'.op = "save_prompt" /\ req'.out = "returned") =>
             LET p == req'.value[1]
                 others == {c \in mongo.prompts : c.id # p.id}
             IN /\ mongo'.prompts = others \cup {p}
                /\ C25_AtMostOneActive =>
                       (C25_AtMostOneActive' <=>
                            (~p.is_active \/ ActiveOf(others, p.prompt_type) = {}))
       /\ req'.op = "get_active_prompt" =>
             LET active == ActiveOf(mongo.prompts, req'.id)
             IN IF req'.fault = "none" /\ active # {}
                THEN Len(req'.value) = 1 /\ req'.value[1] \in active
                ELSE req'.value = <<>>]_vars

\* save_prompt has left two active categorization configs.
C25_Witness ==
    /\ req.op = "save_prompt" /\ req.out = "returned"
    /\ Cardinality(ActiveOf(mongo.prompts, "categorization")) = 2

\* The lookup has returned one of two active configs of different text.
C25_WitnessLookup ==
    /\ req.op = "get_active_prompt" /\ Len(req.value) = 1
    /\ \E c \in ActiveOf(mongo.prompts, "categorization") :
           c.prompt_text # req.value[1].prompt_text

(***************************************************************************)
(* SpecSave: save_email and save_draft calls in flight at the same time    *)
(* (backend/services/database_service.py)                                  *)
(***************************************************************************)

MaxSaves == 3

\* A caller has entered save_email(email) or save_draft(draft): the dump of
\* the whole record is taken, the update_one is still to come.
BeginSave(s) ==
    /\ IF req.op = "save" THEN Len(req.begun) < MaxSaves /\ s \notin req.pending
       ELSE TRUE
    /\ req' = IF req.op = "save"
              THEN [req EXCEPT !.pending = @ \cup {s}, !.begun = Append(@, s)]
              ELSE [op |-> "save", pending |-> {s}, begun |-> <<s>>, log |-> <<>>]
    /\ UNCHANGED <<mongo, coreVars, aggVars, llmVars, draftVars, ragVars>>

\* A write that sets the fields of the dump one group at a time and is
\* overtaken in between: the category (or body) of the record is left as
\* another save wrote it.
CommitSaveMerging(s) ==
    /\ req.op = "save" /\ s \in req.pending
    /\ LET stored == FindOne(mongo[s.coll], s.doc.id)
           merged == IF stored = <<>> THEN s.doc
                     ELSE [f \in DOMAIN s.doc |->
                              IF f \in {"category", "body"} THEN stored[1][f]
                              ELSE s.doc[f]]
       IN mongo' = [mongo EXCEPT ![s.coll] = UpdateOneUpsert(@, s.doc.id, merged)]
    /\ req' = [req EXCEPT !.pending = @ \ {s}, !.log = Append(@, s)]
    /\ UNCHANGED <<coreVars, aggVars, llmVars, draftVars, ragVars>>

\* update_one({"id": id}, {"$set": dump}, upsert=True) of one pending save:
\* one document operation of the store, carrying every field of the record.
CommitSave(s) ==
    /\ req.op = "save" /\ s \in req.pending
    /\ mongo' = [mongo EXCEPT ![s.coll] = UpdateOneUpsert(@, s.doc.id, s.doc)]
    /\ req' = [req EXCEPT !.pending = @ \ {s}, !.log = Append(@, s)]
    /\ UNCHANGED <<coreVars, aggVars, llmVars, draftVars, ragVars>>

\* The update_one of a pending save raises: logged, re-raised, nothing written.
FailSave(s) ==
    /\ req.op = "save" /\ s \in req.pending
    /\ req' = [req EXCEPT !.pending = @ \ {s}]
    /\ UNCHANGED <<mongo, coreVars, aggVars, llmVars, draftVars, ragVars>>

NextSave ==
    \E s \in {[coll |-> "emails", doc |-> d] :
                 d \in UNION {{FreshEmail(id),
                               [FreshEmail(id) EXCEPT !.category = "URGENT",
                                                      !.category_reason = "Test reason",
                                                      !.classified = TRUE]} :
                                 id \in {"e1", "e2"}}}
              \cup {[coll |-> "drafts",
                     doc |-> DumpDraft([NewDraft(0, "e1", "alice@example.com",
                                                 subject, body, <<>>)
                                          EXCEPT !.id = "d1"])] :
                       <<subject, body>> \in {<<"Re: Status Update", "reply body">>,
                                              <<"Re: Plan", "refined body">>}} :
        \/ BeginSave(s)
        \/ CommitSave(s)
        \/ FailSave(s)

SpecSave == Init /\ [][NextSave]_vars

\* The saves of the log that wrote the record id of collection coll.
WritesTo(coll, id) ==
    SelectSeq(req.log, LAMBDA s : s.coll = coll /\ s.doc.id = id)

\* C26: whatever the interleaving of the saves, each stored record is,
\* field for field, the record of the last save that wrote its id: saves to
\* other ids and collections leave it alone, and of several saves to one id
\* the last write wins whole.  An id no save has written is not stored.
C26_LastWriteWinsWhole ==
    req.op = "save" =>
        \A coll \in {"emails", "drafts"}, id \in {"e1", "e2", "d1"} :
            LET writes == WritesTo(coll, id)
            IN /\ Cardinality({d \in mongo[coll] : d.id = id})
                      = IF writes = <<>> THEN 0 ELSE 1
               /\ writes # <<>> => FindOne(mongo[coll], id) = <<writes[Len(writes)].doc>>

\* Two saves of different records of one id were in flight together and
\* were written in the reverse of the order they began in, while a save of
\* another id was written in between.
C26_Witness ==
    /\ req.op = "save" /\ Len(req.begun) = 3 /\ Len(req.log) = 3
    /\ req.begun[1] = req.log[3] /\ req.begun[2] = req.log[1]
    /\ req.log[1].coll = "emails" /\ req.log[3].coll = "emails"
    /\ req.log[1].doc.id = req.log[3].doc.id
    /\ req.log[1].doc.category # req.log[3].doc.category
    /\ req.log[2].doc.id # req.log[1].doc.id

\* The same race on a draft.
C26_WitnessDraft ==
    /\ req.op = "save" /\ Len(req.begun) >= 2 /\ Len(req.log) = 2
    /\ req.begun[1] = req.log[2] /\ req.begun[2] = req.log[1]
    /\ req.log[1].coll = "drafts" /\ req.log[2].coll = "drafts"
    /\ req.log[1].doc # req.log[2].doc

(***************************************************************************)
(* SpecRace: recategorize_all_emails one email at a time, while            *)
(* mark_action_item_complete is called (backend/agents)                    *)
(***************************************************************************)

\* Two stored emails, each with the action item "d1", completed or not.
\* acked: the (email, description) pairs a complete has returned True for;
\* raced: the emails for which that happened between the read of a running
\* recategorize_all and its write-back of the email.
InitRace ==
    /\ \E c1, c2 \in {Missing, "true"} :
           store = [id \in {"e1", "e2"} |->
                      [FreshEmail(id) EXCEPT !.action_items =
                          <<ActionItemOf([description |-> "d1", priority |-> "High",
                                          completed |-> IF id = "e1" THEN c1 ELSE c2])>>]]
    /\ last = [op |-> "recategorize_all", pc |-> "idle", snapshot |-> <<>>, pos |-> 1,
               count |-> 0, acked |-> {}, raced |-> {}]
    /\ aggResult = AggIdle /\ llm = LLMIdle /\ drafts = <<>> /\ now = 0
    /\ draftOp = DraftIdle /\ rag = RagIdle /\ index = {}
    /\ mongo = [emails |-> {}, prompts |-> {}, drafts |-> {}] /\ req = ReqIdle

\* recategorize_all_emails begins: emails = get_all_emails(limit=1000).
ReadAll(readOk) ==
    /\ last.pc \in {"idle", "returned"}
    /\ LET emails == IF readOk THEN GetAllEmails(store, EmailLimit) ELSE <<>>
       IN last' = [last EXCEPT !.snapshot = emails, !.pos = 1, !.count = 0,
                               !.pc = IF emails = <<>> THEN "returned" ELSE "loop"]
    /\ UNCHANGED <<store, index, aggVars, llmVars, draftVars, dbVars, rag>>

\* A write-back that reads the stored email again and sets its category on
\* that.
WriteBackReread(r, dbOk) ==
    /\ last.pc = "loop"
    /\ LET res == CategorizeSingleEmail(store[last.snapshot[last.pos].id], r, dbOk)
       IN /\ store' = IF res.saved THEN SaveEmail(store, res.email) ELSE store
          /\ last' = [last EXCEPT
                        !.pos = @ + 1,
                        !.count = IF res.out = "returned" THEN @ + 1 ELSE @,
                        !.pc = IF last.pos < Len(last.snapshot) THEN "loop" ELSE "returned"]
    /\ UNCHANGED <<index, aggVars, llmVars, draftVars, dbVars, rag>>

\* One turn of the loop: categorize_single_email(email, custom_prompt) on the
\* email object read at the start, which ends in save_email(email).
WriteBack(r, dbOk) ==
    /\ last.pc = "loop"
    /\ LET res == CategorizeSingleEmail(last.snapshot[last.pos], r, dbOk)
       IN /\ store' = IF res.saved THEN SaveEmail(store, res.email) ELSE store
          /\ last' = [last EXCEPT
                        !.pos = @ + 1,
                        !.count = IF res.out = "returned" THEN @ + 1 ELSE @,
                        !.pc = IF last.pos < Len(last.snapshot) THEN "loop" ELSE "returned"]
    /\ UNCHANGED <<index, aggVars, llmVars, draftVars, dbVars, rag>>

\* mark_action_item_complete(email_id, description), whole, at any moment.
CompleteCall(id, desc, dbOk) ==
    /\ LET res == MarkActionItemComplete(store, id, desc, dbOk)
           pending == last.pc = "loop" /\ \E k \in last.pos..Len(last.snapshot) :
                                             last.snapshot[k].id = id
       IN /\ store' = res.store
          /\ last' = [last EXCEPT
                        !.acked = IF res.out THEN @ \cup {<<id, desc>>} ELSE @,
                        !.raced = IF res.out /\ pending THEN @ \cup {id} ELSE @]
    /\ UNCHANGED <<index, aggVars, llmVars, draftVars, dbVars, rag>>

NextRace ==
    \/ \E readOk \in BOOLEAN : ReadAll(readOk)
    \/ \E r \in {c \in CatOutcomes : c.kind = "fail" \/ c.category = "URGENT"},
          dbOk \in BOOLEAN :
          WriteBack(r, dbOk)
    \/ \E id \in {"e1", "e2"}, desc \in {"d1", "d2"}, dbOk \in BOOLEAN :
          CompleteCall(id, desc, dbOk)

SpecRace == InitRace /\ [][NextRace]_vars

Racing == last.op = "recategorize_all" /\ "snapshot" \in DOMAIN last

\* The stored email id has an item of description desc that is completed.
StoredCompleted(id, desc) ==
    \E i \in 1..Len(store[id].action_items) :
        /\ store[id].action_items[i].description = desc
        /\ store[id].action_items[i].completed

\* C28: recategorize_all reads the emails once and each turn of its loop
\* writes back the whole email object it read, action items included, with
\* the new category; a complete that returned true has its item completed
\* in the store at that moment, and as long as no complete of an email fell
\* between the read and the write-back of that email, the item is still
\* completed in every later state.
C28_WriteBackOfSnapshot ==
    [][IF Racing
       THEN /\ (last.pc = "loop" /\ last'.pos = last.pos + 1 /\ store' # store) =>
                   LET e == last.snapshot[last.pos]
                   IN /\ store'[e.id].action_items = e.action_items
                      /\ store'[e.id].embedding_id = e.embedding_id
                      /\ \A id \in DOMAIN store : id # e.id => store'[id] = store[id]
            /\ last'.snapshot # last.snapshot =>
                   last'.snapshot \in {GetAllEmails(store, EmailLimit), <<>>}
            /\ \A p \in last'.acked \ last.acked : StoredCompleted(p[1], p[2])'
            /\ \A p \in last'.acked :
                   p[1] \notin last'.raced => StoredCompleted(p[1], p[2])'
       ELSE TRUE]_vars

\* The lost update: complete returned true for an item, recategorize_all has
\* returned, and the stored item is not completed.
C28_Witness ==
    /\ Racing /\ last.pc = "returned" /\ last.count > 0
    /\ \E p \in last.acked : p[1] \in last.raced /\ ~StoredCompleted(p[1], p[2])

\* Without the interleaving: completed before the read, recategorized, and
\* still completed.
C28_WitnessKept ==
    /\ Racing /\ last.pc = "returned" /\ last.count = 2 /\ last.raced = {}
    /\ \E p \in last.acked :
           StoredCompleted(p[1], p[2]) /\ store[p[1]].category = "URGENT"

(***************************************************************************)
(* Frame and failure behaviour of categorize and extract                   *)
(***************************************************************************)

\* SpecFrame: categorize, extract and reply on stored emails, with the
\* default prompts, next to the saves of two emails.
NextFrame ==
    \/ \E id \in {"e1", "e2"}, dbOk \in BOOLEAN : SaveEmailRecord(id, FreshEmail(id), dbOk)
    \/ \E id \in {"e1", "e2"}, dbOk \in BOOLEAN,
          r \in {c \in CatOutcomes : c.kind = "fail" \/ c.category \in {"URGENT", "Important"}} :
          CategorizeStored(id, None, TRUE, r, dbOk)
    \/ \E id \in {"e1", "e2"}, dbOk \in BOOLEAN,
          x \in {l \in ExtOutcomes : IF l.kind = "fail" THEN TRUE ELSE Len(l.items) = 1} :
          ExtractStored(id, None, TRUE, x, dbOk)
    \/ \E id \in {"e1", "e2"}, fault \in {"none", "llm", "store"} :
          ReplyStored(id, None, TRUE, fault, "d1")

SpecFrame == Init /\ [][NextFrame]_vars

\* The fields of record b that differ from those of record a.
ChangedFields(a, b) == {f \in DOMAIN a : a[f] # b[f]}

\* C29: categorize, run on the stored record of an email, changes only
\* category and category_reason (and the history flag of the model) and
\* extract changes only the action-item list, in the returned email and in
\* the stored record alike, which are equal; no other email, no draft and no
\* prompt config is touched, whether the call returns or raises.
C29_FrameOfCategorizeAndExtract ==
    [][req'.op \in {"categorize", "extract"} =>
          LET id == req'.id
              old == FindOne(mongo.emails, id)[1]
          IN /\ {d \in mongo'.emails : d.id # id} = {d \in mongo.emails : d.id # id}
             /\ mongo'.drafts = mongo.drafts /\ mongo'.prompts = mongo.prompts
             /\ req'.out = "returned" =>
                    /\ FindOne(mongo'.emails, id) = req'.value
                    /\ ChangedFields(old, req'.value[1])
                           \subseteq IF req'.op = "categorize"
                                     THEN {"category", "category_reason", "classified"}
                                     ELSE {"action_items"}]_vars

\* A categorize that returned for an email with a completed action item,
\* next to another email and a draft.
C29_Witness ==
    /\ req.op = "categorize" /\ req.out = "returned"
    /\ req.value[1].category = "URGENT"
    /\ Len(req.value[1].action_items) = 1 /\ req.value[1].action_items[1].completed
    /\ ~Absent(mongo.emails, "e2") /\ mongo.drafts # {}

\* An extract that returned for a categorized email, next to another email
\* and a draft.
C29_WitnessExtract ==
    /\ req.op = "extract" /\ req.out = "returned"
    /\ req.value[1].category = "URGENT" /\ Len(req.value[1].action_items) = 1
    /\ ~Absent(mongo.emails, "e2") /\ mongo.drafts # {}

\* The emails a caller can pass for id: the stored one, a newly loaded one.
PassedIn(id) ==
    {FreshEmail(id)} \cup (IF id \in DOMAIN store THEN {store[id]} ELSE {})

\* C30: a categorize or extract whose LLM call failed, or an extract that got
\* an item without a description, raises, leaves the caller's email as it
\* was passed in and writes nothing to the store; a call that returned had
\* a dict from the helper (categorize) or only valid items (extract).
C30_FailureLeavesEmail ==
    [][last'.op \in {"categorize", "extract"} =>
          /\ (last'.out = "raised" /\ last'.cause \in {"llm", "item"}) =>
                 /\ store' = store
                 /\ Len(last'.mem) = 1 /\ last'.mem[1] \in PassedIn(last'.id)
          /\ last'.cause \in {"llm", "item"} => last'.out = "raised"
          /\ (last'.op = "categorize" /\ last'.out = "returned") => last'.label # ""
          /\ (last'.op = "extract" /\ last'.out = "returned") =>
                 \A i \in 1..Len(last'.items) : last'.items[i].description # Missing]_vars

\* An extract raised on an invalid item; the stored email, which was passed
\* in, still has its category and its items.
C30_Witness ==
    /\ last.op = "extract" /\ last.out = "raised" /\ last.cause = "item"
    /\ last.id \in DOMAIN store /\ last.mem = <<store[last.id]>>
    /\ store[last.id].action_items # <<>> /\ store[last.id].category = "URGENT"

\* A categorize raised on the LLM failure; the stored email, which was
\* passed in, keeps its earlier category.
C30_WitnessCategorize ==
    /\ last.op = "categorize" /\ last.out = "raised" /\ last.cause = "llm"
    /\ last.id \in DOMAIN store /\ last.mem = <<store[last.id]>>
    /\ store[last.id].action_items # <<>> /\ store[last.id].category = "URGENT"

====
